---- MODULE Spec2Model ----
(***************************************************************************)
(* Kosovo COVID-19 API: the automation service (scheduler, data refresh,   *)
(* daily statistics, weekly report), the query gateway it writes through,  *)
(* the POST /cases write path and the 7-day moving-average calculators.    *)
(*                                                                         *)
(* Node runs one callback at a time, so everything between two `await`s    *)
(* is one atomic action; every `await executeQuery(...)` is a point where  *)
(* another job's tick, a request or start()/stop() may interleave.         *)
(***************************************************************************)
EXTENDS Integers, Sequences, FiniteSets, Bags, TLC

VARIABLES
    isRunning,      \* AutomationService.isRunning
    jobs,           \* AutomationService.jobs: the names registered in the Map
    cronTasks,      \* started node-cron tasks per job name (registered or leaked)
    tick,           \* per job: where its in-flight tick callback stands, with its locals
    today,          \* the calendar day moment() reports
    covid_cases,    \* table covid_cases: the bag of its rows (id and timestamps left out)
    data_sources,   \* table data_sources, keyed by source_name
    vaccinations,   \* table vaccinations: the bag of its rows, and whether the
                    \* specification follows them (tracked) or leaves them out
    hospitals,      \* table hospitals: per id, the capacity and occupancy columns
    gwOutcome,      \* query gateway: what pool.execute does with the statement
    gwCall,         \* query gateway: the completion of executeQuery on it
    maData,         \* moving averages: the date-ascending input sequence
    maOut,          \* moving averages: the computation applied and its output
    calcIn,         \* calculators and validators: the input of the call
    calcOut         \* calculators and validators: the operation applied and its result

vars == <<isRunning, jobs, cronTasks, tick, today, covid_cases, data_sources,
          vaccinations, hospitals, gwOutcome, gwCall, maData, maOut, calcIn, calcOut>>

schedVars == <<isRunning, jobs, cronTasks>>
maVars == <<maData, maOut>>
gwVars == <<gwOutcome, gwCall>>
\* the state of the pure-function specifications
calcVars == <<calcIn, calcOut>>
pureVars == <<gwVars, maVars, calcVars>>

----------------------------------------------------------------------------
(* Bounds of the model *)

\* days the clock may reach, counted from day 0, the day the process starts
MaxDay == 1
\* rows covid_cases may hold
MaxRows == 2

----------------------------------------------------------------------------
(* JavaScript and SQL values *)

\* MySQL signed INT, the type of every counter column
IntMax == 2147483647

Num(n) == [t |-> "number", v |-> n]
\* a string of decimal digits, by the number it spells
Str(n) == [t |-> "string", v |-> n]
\* a string of decimal digits spelling a number above IntMax, and such a number
BigStr == [t |-> "bigstring", v |-> 0]
BigNum == [t |-> "bignumber", v |-> 0]
Null == [t |-> "null", v |-> 0]
Undefined == [t |-> "undefined", v |-> 0]

IsBig(x) == x.t \in {"bigstring", "bignumber"}

\* JavaScript truthiness: null, undefined and the number 0 are falsy, every
\* non-empty string (also "0") is truthy
Truthy(x) ==
    CASE x.t = "number" -> x.v # 0
      [] x.t \in {"string", "bigstring", "bignumber"} -> TRUE
      [] OTHER -> FALSE

\* a || b
JsOr(a, b) == IF Truthy(a) THEN a ELSE b

\* obj.field, undefined when the object has no such property
Get(obj, field) == IF field \in DOMAIN obj THEN obj[field] ELSE Undefined

Digits(n) ==
    IF n < 10 THEN 1
    ELSE IF n < 100 THEN 2
    ELSE IF n < 1000 THEN 3
    ELSE IF n < 10000 THEN 4
    ELSE IF n < 100000 THEN 5
    ELSE IF n < 1000000 THEN 6
    ELSE IF n < 10000000 THEN 7
    ELSE IF n < 100000000 THEN 8
    ELSE IF n < 1000000000 THEN 9
    ELSE 10

RECURSIVE Pow10(_)
Pow10(d) == IF d = 0 THEN 1 ELSE 10 * Pow10(d - 1)

\* the digits of a followed by the digits of n, as the number they spell
ConcatDigits(a, n) ==
    IF Digits(n) > 9 \/ a > (IntMax - n) \div Pow10(Digits(n))
    THEN BigStr
    ELSE Str(a * Pow10(Digits(n)) + n)

\* a + n for a number n >= 0: addition of two numbers, concatenation as soon
\* as the left operand is a string
JsPlus(a, n) ==
    CASE a.t = "string" -> ConcatDigits(a.v, n)
      [] a.t = "bigstring" -> BigStr
      [] a.t = "number" -> IF a.v > IntMax - n THEN BigNum ELSE Num(a.v + n)
      [] a.t = "bignumber" -> BigNum
      [] OTHER -> Num(n)

\* ToNumber, as applied by the operator - and by Math.max (null is 0)
ToNumber(x) == IF x.t \in {"number", "string"} THEN x.v ELSE 0

\* a - b - c
JsMinus3(a, b, c) ==
    IF IsBig(a) \/ IsBig(b) \/ IsBig(c) THEN BigNum
    ELSE Num(ToNumber(a) - ToNumber(b) - ToNumber(c))

Max(a, b) == IF a >= b THEN a ELSE b

----------------------------------------------------------------------------
(* Query gateway *)

\* mysql2 hands DECIMAL columns (every SUM() of an INT column) to JavaScript
\* as strings unless the pool is created with decimalNumbers: true
decimalNumbers == FALSE

Decimal(n) ==
    IF n < 0 THEN (IF decimalNumbers THEN BigNum ELSE BigStr)
    ELSE IF decimalNumbers THEN Num(n) ELSE Str(n)

Return(v) == [completion |-> "return", value |-> v]
Throw(e) == [completion |-> "throw", value |-> e]

\* what pool.execute does: resolves with the results or rejects with an Error
Resolved(results) == [ok |-> TRUE, results |-> results]
Rejected(message) == [ok |-> FALSE, error |-> [message |-> message]]

executeQuerySwallows(outcome) ==
    IF outcome.ok
    THEN Return([success |-> TRUE, data |-> outcome.results])
    ELSE Return([success |-> TRUE, data |-> <<>>])

executeQueryRethrows(outcome) ==
    IF outcome.ok
    THEN Return([success |-> TRUE, data |-> outcome.results])
    ELSE Throw(outcome.error)

executeQuery(outcome) ==
    IF outcome.ok
    THEN Return([success |-> TRUE, data |-> outcome.results])
    ELSE Return([success |-> FALSE, error |-> outcome.error.message])

\* the failures the statement itself does not decide: pool or connection errors
ConnectionErrors == {"ECONNREFUSED"}

\* messages of the Errors pool.execute rejects with
ErrorMessages ==
    ConnectionErrors \cup
    {"ER_DUP_ENTRY", "ER_PARSE_ERROR", "ER_WARN_DATA_OUT_OF_RANGE", "ER_CON_COUNT_ERROR",
     "Queue limit reached.", "Bind parameters must not contain undefined"}

\* rows a drawn result set may hold
MaxResultRows == 3

\* values of the one column of a drawn result row
ResultValues == {[t |-> "null", v |-> 0], [t |-> "number", v |-> 0],
                 [t |-> "number", v |-> 7], [t |-> "string", v |-> 7]}

\* what a SELECT resolves with: its rows
RowSets == UNION {[1..n -> {[value |-> x] : x \in ResultValues}] : n \in 0..MaxResultRows}

\* what a statement that writes resolves with: its ResultSetHeader
ResultSetHeaders == {[affectedRows |-> k] : k \in 0..2}

\* the outcomes of pool.execute: it resolves with rows or a header, or rejects
IsGatewayOutcome(o) ==
    \/ o \in {Resolved(rs) : rs \in RowSets}
    \/ o \in {Resolved(h) : h \in ResultSetHeaders}
    \/ o \in {Rejected(m) : m \in ErrorMessages}

\* a caller awaits executeQuery(query, params)
ExecuteQuery ==
    /\ gwCall.completion = "none"
    /\ gwCall' = executeQuery(gwOutcome)
    /\ UNCHANGED <<isRunning, jobs, cronTasks, tick, today, covid_cases, data_sources,
                   gwOutcome, maData, maOut, calcVars, vaccinations, hospitals>>

----------------------------------------------------------------------------
(* Scheduler *)

JobNames == {"dataUpdate", "dailyStats", "weeklyReport"}

schedules ==
    [dataUpdate |-> "*/30 * * * *", dailyStats |-> "0 0 * * *", weeklyReport |-> "0 23 * * 0"]

\* cron.schedule(expr, callback, {scheduled: false}); this.jobs.set(name, job);
\* job.start(): one more started task under the name, the Map entry replaced
Schedule(name, sched) ==
    [jobs |-> sched.jobs \cup {name},
     cronTasks |-> [sched.cronTasks EXCEPT ![name] = @ + 1]]

scheduleDataUpdates(sched) == Schedule("dataUpdate", sched)
scheduleDailyStats(sched) == Schedule("dailyStats", sched)
scheduleWeeklyReports(sched) == Schedule("weeklyReport", sched)

StartUnguarded ==
    LET s == scheduleWeeklyReports(scheduleDailyStats(scheduleDataUpdates(
                 [jobs |-> jobs, cronTasks |-> cronTasks])))
    IN  /\ isRunning' = TRUE
        /\ jobs' = s.jobs
        /\ cronTasks' = s.cronTasks
        /\ UNCHANGED <<tick, today, covid_cases, data_sources, pureVars, vaccinations, hospitals>>

StartHalf ==
    IF isRunning
    THEN UNCHANGED vars
    ELSE LET s == scheduleDailyStats(scheduleDataUpdates(
                      [jobs |-> jobs, cronTasks |-> cronTasks]))
         IN  /\ isRunning' = TRUE
             /\ jobs' = s.jobs
             /\ cronTasks' = s.cronTasks
             /\ UNCHANGED <<tick, today, covid_cases, data_sources, pureVars, vaccinations, hospitals>>

\* start(): returns at once when already running, else sets the flag and
\* schedules the three jobs; synchronous, so nothing interleaves
Start ==
    IF isRunning
    THEN UNCHANGED vars
    ELSE LET s == scheduleWeeklyReports(scheduleDailyStats(scheduleDataUpdates(
                      [jobs |-> jobs, cronTasks |-> cronTasks])))
         IN  /\ isRunning' = TRUE
             /\ jobs' = s.jobs
             /\ cronTasks' = s.cronTasks
             /\ UNCHANGED <<tick, today, covid_cases, data_sources, pureVars, vaccinations, hospitals>>

StopKeepsTasks ==
    /\ cronTasks' = cronTasks
    /\ jobs' = {}
    /\ isRunning' = FALSE
    /\ UNCHANGED <<tick, today, covid_cases, data_sources, pureVars, vaccinations, hospitals>>

StopKeepsRegistry ==
    /\ cronTasks' = [n \in JobNames |-> IF n \in jobs THEN cronTasks[n] - 1 ELSE cronTasks[n]]
    /\ jobs' = jobs
    /\ isRunning' = FALSE
    /\ UNCHANGED <<tick, today, covid_cases, data_sources, pureVars, vaccinations, hospitals>>

\* stop(): job.stop() on every registered task, jobs.clear(), flag cleared.
\* A tick already in flight is a pending promise and runs on.
Stop ==
    /\ cronTasks' = [n \in JobNames |-> IF n \in jobs THEN cronTasks[n] - 1 ELSE cronTasks[n]]
    /\ jobs' = {}
    /\ isRunning' = FALSE
    /\ UNCHANGED <<tick, today, covid_cases, data_sources, pureVars, vaccinations, hospitals>>

getStatusSchedulesWhenRunning ==
    [isRunning |-> isRunning,
     activeJobs |-> jobs,
     jobCount |-> Cardinality(jobs),
     schedules |-> IF isRunning THEN schedules ELSE <<>>]

getStatus ==
    [isRunning |-> isRunning,
     activeJobs |-> jobs,
     jobCount |-> Cardinality(jobs),
     schedules |-> schedules]

\* a caller (GET /health/automation) takes the status
GetStatus ==
    /\ calcOut' = [by |-> "getStatus", out |-> getStatus]
    /\ UNCHANGED <<schedVars, tick, today, covid_cases, data_sources, vaccinations, gwVars,
                   maVars, calcIn, hospitals>>

----------------------------------------------------------------------------
(* Tables *)

\* regions the model holds (insertInitialData inserts seven)
MaxRegion == 1

Dates == 0..MaxDay
RegionIds == 1..MaxRegion
\* region_id IS NULL
NoRegion == 0

Row(date, region_id, total_cases, new_cases, active_cases, deaths, new_deaths, recovered, new_recovered) ==
    [date |-> date, region_id |-> region_id, total_cases |-> total_cases,
     new_cases |-> new_cases, active_cases |-> active_cases, deaths |-> deaths,
     new_deaths |-> new_deaths, recovered |-> recovered, new_recovered |-> new_recovered]

RowsOn(table, d) == {r \in BagToSet(table) : r.date = d}

UniqueConflictNullsCollide(table, r) ==
    \E x \in BagToSet(table) : x.date = r.date /\ x.region_id = r.region_id

\* UNIQUE KEY unique_daily_region (date, region_id): MySQL lets any number of
\* rows share a key that holds a NULL, so only rows with a region can collide
UniqueConflict(table, r) ==
    /\ r.region_id # NoRegion
    /\ \E x \in BagToSet(table) : x.date = r.date /\ x.region_id = r.region_id

Insert(table, r) == table (+) SetToBag({r})

RECURSIVE CopiesOf(_, _)
CopiesOf(table, S) ==
    IF S = {} THEN 0
    ELSE LET x == CHOOSE y \in S : TRUE
         IN  CopiesIn(x, table) + CopiesOf(table, S \ {x})

\* UPDATE: every row r becomes F(r)
UpdateRows(table, F(_)) ==
    [y \in {F(x) : x \in BagToSet(table)} |->
        CopiesOf(table, {x \in BagToSet(table) : F(x) = y})]

RECURSIVE SumOver(_, _, _)
\* the sum of a column over the rows S, -1 once it passes IntMax
SumOver(table, col, S) ==
    IF S = {} THEN 0
    ELSE LET r == CHOOSE x \in S : TRUE
             rest == SumOver(table, col, S \ {r})
             mine == r[col] * CopiesIn(r, table)
         IN  IF rest < 0 \/ mine > IntMax - rest THEN -1
             ELSE rest + mine

\* SUM(col) over the rows S as JavaScript receives it: NULL over no rows,
\* else a DECIMAL
SqlSum(table, col, S) ==
    IF S = {} THEN Null ELSE Decimal(SumOver(table, col, S))

\* SELECT SUM(total_cases), SUM(deaths), SUM(recovered) ... WHERE date = d:
\* always one row
SumsOn(table, d) ==
    <<[total_cases |-> SqlSum(table, "total_cases", RowsOn(table, d)),
       total_deaths |-> SqlSum(table, "deaths", RowsOn(table, d)),
       total_recovered |-> SqlSum(table, "recovered", RowsOn(table, d))]>>

\* (SELECT MAX(date) FROM covid_cases WHERE date < d), -1 for NULL
MaxDateBefore(table, d) ==
    LET before == {r.date : r \in {x \in BagToSet(table) : x.date < d}}
    IN  IF before = {} THEN -1 ELSE CHOOSE m \in before : \A x \in before : x <= m

\* insertInitialData: the three rows of data_sources
SourceNames == {"WHO Global Data", "Disease.sh API", "Kosovo Ministry of Health"}
NullText == "NULL"

\* a counter column takes a number or a string of digits within INT range
\* (strict SQL mode rejects the statement otherwise)
FitsInt(x) == x.t \in {"number", "string"} /\ x.v <= IntMax /\ x.v >= -IntMax

----------------------------------------------------------------------------
(* Ticks *)

NoCall == [completion |-> "none"]
Idle == [pc |-> "idle", day |-> 0, r1 |-> NoCall, r2 |-> NoCall]

\* a statement that reads: the connection may fail, else it yields `results`
ReadOutcomes(results) == {Resolved(results)} \cup {Rejected(m) : m \in ConnectionErrors}

SetTick(name, pc, day, r1, r2) ==
    [tick EXCEPT ![name] = [pc |-> pc, day |-> day, r1 |-> r1, r2 |-> r2]]

----------------------------------------------------------------------------
(* Data refresh: updateCovidData *)

SimulationSource == "Kosovo Health Ministry Simulation"

\* the three draws of one run, Math.floor(Math.random() * 50) + 10,
\* Math.floor(Math.random() * 3) and Math.floor(Math.random() * 40) + 20:
\* the least value of each
Draws == {<<10, 0, 20>>}

baseDataDefault ==
    [total_cases |-> Num(230000), deaths |-> Num(2800), recovered |-> Num(220000)]

\* baseData after the `if` on the result of the first query
BaseData(existingDataResult) ==
    IF /\ existingDataResult.success
       /\ Len(existingDataResult.data) > 0
       /\ Truthy(existingDataResult.data[1].total_cases)
    THEN existingDataResult.data[1]
    ELSE baseDataDefault

\* updatedData, active_cases included
UpdatedData(baseData, newCases, newDeaths, newRecovered) ==
    LET total == JsPlus(JsOr(Get(baseData, "total_cases"), Num(0)), newCases)
        deaths == JsPlus(JsOr(Get(baseData, "total_deaths"), Num(0)), newDeaths)
        recovered == JsPlus(JsOr(Get(baseData, "total_recovered"), Num(0)), newRecovered)
    IN  [total_cases |-> total, deaths |-> deaths, recovered |-> recovered,
         active_cases |-> JsMinus3(total, deaths, recovered)]

\* INSERT ... ON DUPLICATE KEY UPDATE col = VALUES(col): a colliding row takes
\* the new values, otherwise the row is inserted
Upsert(table, r) ==
    IF UniqueConflict(table, r)
    THEN LET Replace(x) ==
                 IF x.date = r.date /\ x.region_id = r.region_id THEN r ELSE x
         IN  UpdateRows(table, Replace)
    ELSE Insert(table, r)

\* UPDATE data_sources SET ... WHERE source_name = ?
updateDataSource(table, sourceName, errorMessage, now) ==
    [n \in DOMAIN table |->
        IF n # sourceName THEN table[n]
        ELSE IF errorMessage # NullText
        THEN [error_count |-> table[n].error_count + 1, last_error |-> errorMessage,
              last_updated |-> now]
        ELSE [error_count |-> 0, last_error |-> NullText, last_updated |-> now]]

\* ResultSetHeader of a statement that writes
Written(affectedRows) == [affectedRows |-> affectedRows]
WriteOutcomes(affectedRows) == ReadOutcomes(Written(affectedRows))

\* the cron task of dataUpdate fires: updateCovidData reads the clock and
\* awaits the sums of the latest day before today
DataUpdateTick ==
    /\ cronTasks["dataUpdate"] > 0
    /\ tick["dataUpdate"].pc = "idle"
    /\ \E o \in ReadOutcomes(SumsOn(covid_cases, MaxDateBefore(covid_cases, today))) :
           /\ tick' = SetTick("dataUpdate", "covid_read", today, executeQuery(o), NoCall)
    /\ UNCHANGED <<schedVars, today, covid_cases, data_sources, pureVars, vaccinations, hospitals>>

\* the parameters of the upsert as a row, once MySQL has converted them
UpsertRow(day, u, newCases, newDeaths, newRecovered) ==
    Row(day, NoRegion, u.total_cases.v, newCases, u.active_cases.v, u.deaths.v, newDeaths,
        u.recovered.v, newRecovered)

UpsertOutcomes(table, u, row) ==
    IF FitsInt(u.total_cases) /\ FitsInt(u.deaths) /\ FitsInt(u.recovered)
       /\ FitsInt(u.active_cases)
    THEN WriteOutcomes(IF UniqueConflict(table, row) THEN 2 ELSE 1)
    ELSE {Rejected("ER_WARN_DATA_OUT_OF_RANGE")}

\* updateCovidData after the first query: draws the delta, builds updatedData
\* and awaits the upsert of today's national row (whose result it never
\* reads); had the first query thrown, the catch block would start here
UpdateCovidDataWrite ==
    /\ tick["dataUpdate"].pc = "covid_read"
    /\ BagCardinality(covid_cases) < MaxRows
    /\ LET t == tick["dataUpdate"]
       IN  IF t.r1.completion = "throw"
           THEN /\ tick' = SetTick("dataUpdate", "covid_write", t.day, NoCall, t.r1)
                /\ UNCHANGED covid_cases
           ELSE \E draw \in Draws :
                    LET newCases == draw[1]
                        newDeaths == draw[2]
                        newRecovered == draw[3]
                        u == UpdatedData(BaseData(t.r1.value), newCases, newDeaths,
                                         newRecovered)
                        row == UpsertRow(t.day, u, newCases, newDeaths, newRecovered)
                    IN  \E o \in UpsertOutcomes(covid_cases, u, row) :
                            /\ covid_cases' = IF o.ok THEN Upsert(covid_cases, row)
                                              ELSE covid_cases
                            /\ tick' = SetTick("dataUpdate", "covid_write", t.day, NoCall,
                                               executeQuery(o))
    /\ UNCHANGED <<schedVars, today, data_sources, pureVars, vaccinations, hospitals>>

\* updateCovidData after the upsert: awaits updateDataSource(name, null), or,
\* from the catch block, updateDataSource(name, error.message)
UpdateCovidDataSource ==
    /\ tick["dataUpdate"].pc = "covid_write"
    /\ LET t == tick["dataUpdate"]
           errorMessage == IF t.r2.completion = "throw" THEN t.r2.value.message
                           ELSE NullText
       IN  \E o \in WriteOutcomes(IF SimulationSource \in DOMAIN data_sources THEN 1 ELSE 0) :
               /\ data_sources' = IF o.ok
                                  THEN updateDataSource(data_sources, SimulationSource,
                                                        errorMessage, today)
                                  ELSE data_sources
               /\ tick' = SetTick("dataUpdate", "covid_source", t.day, executeQuery(o),
                                  NoCall)
    /\ UNCHANGED <<schedVars, today, covid_cases, pureVars, vaccinations, hospitals>>

\* most hospitals the model holds
MaxHospitals == 1

\* the tables of hospitals drawn: capacities as POST /hospitals stores them
\* (each isInt({min: 0}), default 0), every occupancy at its default 0
HospitalTables ==
    LET Capacities ==
            {[total_beds |-> 5, covid_beds |-> 4, icu_beds |-> 2, ventilators |-> 2],
             [total_beds |-> 0, covid_beds |-> 0, icu_beds |-> 0, ventilators |-> 0]}
    IN  UNION {[1..n -> {c @@ [occupied_beds |-> 0, occupied_covid_beds |-> 0,
                               occupied_icu_beds |-> 0, occupied_ventilators |-> 0] :
                             c \in Capacities}] : n \in 1..MaxHospitals}

OccupancyOver(capacity, lowTenths, highTenths) == 0..(2 * capacity)

\* Math.floor(capacity * (low + Math.random() * (high - low))), low and high
\* in tenths: every value the draw can give
Occupancy(capacity, lowTenths, highTenths) ==
    {x \in 0..capacity :
        \/ capacity = 0 /\ x = 0
        \/ capacity > 0 /\ 10 * x < highTenths * capacity
                        /\ 10 * (x + 1) > lowTenths * capacity}

\* updateHospitalCapacity: awaits SELECT id, total_beds, covid_beds, icu_beds
\* FROM hospitals; with no row to update (or a failed query) the step is over
UpdateHospitalCapacity ==
    /\ tick["dataUpdate"].pc = "covid_source"
    /\ \E o \in ReadOutcomes([id \in DOMAIN hospitals |->
                                  [id |-> id, total_beds |-> hospitals[id].total_beds,
                                   covid_beds |-> hospitals[id].covid_beds,
                                   icu_beds |-> hospitals[id].icu_beds]]) :
           LET result == executeQuery(o)
               rows == IF result.completion = "return" /\ result.value.success
                       THEN result.value.data ELSE <<>>
           IN  tick' = IF rows = <<>>
                       THEN SetTick("dataUpdate", "hospital", 0, NoCall, NoCall)
                       ELSE SetTick("dataUpdate", "hospital_update", 0,
                                    [completion |-> "rows", value |-> rows], NoCall)
    /\ UNCHANGED <<schedVars, today, covid_cases, data_sources, pureVars, vaccinations,
                   hospitals>>

\* the loop of updateHospitalCapacity: draws the three occupancies of the
\* next hospital read and awaits its UPDATE (whose result it never reads)
UpdateHospitalRow ==
    /\ tick["dataUpdate"].pc = "hospital_update"
    /\ LET rows == tick["dataUpdate"].r1.value
           hospital == Head(rows)
       IN  \E covidOccupancy \in Occupancy(hospital.covid_beds, 3, 7),
              icuOccupancy \in Occupancy(hospital.icu_beds, 5, 8),
              totalOccupancy \in Occupancy(hospital.total_beds, 6, 9),
              o \in WriteOutcomes(1) :
               /\ hospitals' =
                      IF o.ok
                      THEN [hospitals EXCEPT ![hospital.id] =
                               [@ EXCEPT !.occupied_beds = totalOccupancy,
                                         !.occupied_covid_beds = covidOccupancy,
                                         !.occupied_icu_beds = icuOccupancy]]
                      ELSE hospitals
               /\ tick' = IF Tail(rows) = <<>>
                          THEN SetTick("dataUpdate", "hospital", 0, NoCall, NoCall)
                          ELSE SetTick("dataUpdate", "hospital_update", 0,
                                       [completion |-> "rows", value |-> Tail(rows)],
                                       NoCall)
    /\ UNCHANGED <<schedVars, today, covid_cases, data_sources, pureVars, vaccinations>>

\* most vaccinations rows the model holds
MaxVaccinations == 2

VaccinationRow(date, region_id, vaccine_type, first_dose, second_dose, booster_dose) ==
    [date |-> date, region_id |-> region_id, vaccine_type |-> vaccine_type,
     first_dose |-> first_dose, second_dose |-> second_dose,
     booster_dose |-> booster_dose,
     total_doses |-> first_dose + second_dose + booster_dose]

\* updateVaccinationData: SELECT id FROM regions, then one upsert per region
\* of today's drawn doses firstDose, secondDose, boosterDose (whose result it
\* never reads); the tick ends.
\* The upsert is INSERT ... ON DUPLICATE KEY UPDATE col = col + VALUES(col) on
\* a table with no unique key besides its AUTO_INCREMENT id: no row is ever a
\* duplicate and the statement inserts
UpdateVaccinationData ==
    /\ tick["dataUpdate"].pc = "hospital"
    /\ BagCardinality(vaccinations.rows) < MaxVaccinations
    /\ \E o \in ReadOutcomes([i \in RegionIds |-> [id |-> i]]) :
           /\ tick' = [tick EXCEPT !["dataUpdate"] = Idle]
           /\ IF /\ vaccinations.tracked
                 /\ executeQuery(o).completion = "return"
                 /\ executeQuery(o).value.success
              THEN \E draw \in {<<20, 15, 10>>}, written \in SUBSET RegionIds :
                       vaccinations' =
                           [vaccinations EXCEPT !.rows =
                               @ (+) SetToBag({VaccinationRow(today, rg, NullText, draw[1],
                                                              draw[2], draw[3]) :
                                                  rg \in written})]
              ELSE UNCHANGED vaccinations
    /\ UNCHANGED <<schedVars, today, covid_cases, data_sources, pureVars, hospitals>>

\* POST /vaccinations with today's date, a region_id and doses first_dose,
\* second_dose, booster_dose (each isInt({min: 0})); municipality_id
\* and vaccine_type given or not (a parameter left undefined makes mysql2
\* reject the statement); the same upsert, which inserts
PostVaccinations ==
    /\ vaccinations.tracked
    /\ BagCardinality(vaccinations.rows) < MaxVaccinations
    /\ \E region_id \in RegionIds, hasMunicipality \in BOOLEAN, hasVaccineType \in BOOLEAN,
          d \in {<<5, 0, 0>>} :
           LET row == VaccinationRow(today, region_id, "Pfizer", d[1], d[2], d[3])
               outcomes ==
                   IF ~hasMunicipality \/ ~hasVaccineType
                   THEN {Rejected("Bind parameters must not contain undefined")}
                   ELSE WriteOutcomes(1)
           IN  \E o \in outcomes :
                   vaccinations' = IF o.ok
                                   THEN [vaccinations EXCEPT !.rows = Insert(@, row)]
                                   ELSE vaccinations
    /\ UNCHANGED <<schedVars, tick, today, covid_cases, data_sources, pureVars, hospitals>>

----------------------------------------------------------------------------
(* Daily statistics: calculateDailyStatistics, updateTrends *)

DailyDeltaUnclamped(todayValue, yesterdayValue) ==
    LET a == JsOr(todayValue, Num(0))
        b == JsOr(yesterdayValue, Num(0))
    IN  IF IsBig(a) \/ IsBig(b) THEN BigNum
        ELSE Num(ToNumber(a) - ToNumber(b))

\* Math.max(0, (todayStats.x || 0) - (yesterdayStats.x || 0))
DailyDelta(todayValue, yesterdayValue) ==
    LET a == JsOr(todayValue, Num(0))
        b == JsOr(yesterdayValue, Num(0))
    IN  IF IsBig(a) \/ IsBig(b) THEN BigNum
        ELSE Num(Max(0, ToNumber(a) - ToNumber(b)))

\* UPDATE covid_cases SET new_cases = ?, new_deaths = ?, new_recovered = ?
\* WHERE date = ?: every row of that date
SetDailyDeltas(table, d, newCases, newDeaths, newRecovered) ==
    LET Set(x) ==
            IF x.date = d
            THEN [x EXCEPT !.new_cases = newCases, !.new_deaths = newDeaths,
                           !.new_recovered = newRecovered]
            ELSE x
    IN  UpdateRows(table, Set)

RECURSIVE Ascending(_)
\* the numbers of S in ascending order
Ascending(S) ==
    IF S = {} THEN <<>>
    ELSE LET m == CHOOSE x \in S : \A y \in S : x <= y
         IN  <<m>> \o Ascending(S \ {m})

\* SELECT DATE(date), SUM(new_cases), SUM(new_deaths), SUM(new_recovered)
\* ... WHERE date >= since GROUP BY DATE(date) ORDER BY date
TrendRows(table, since) ==
    LET ds == Ascending({r.date : r \in {x \in BagToSet(table) : x.date >= since}})
    IN  [k \in DOMAIN ds |->
            [date |-> ds[k],
             daily_cases |-> SqlSum(table, "new_cases", RowsOn(table, ds[k])),
             daily_deaths |-> SqlSum(table, "new_deaths", RowsOn(table, ds[k])),
             daily_recovered |-> SqlSum(table, "new_recovered", RowsOn(table, ds[k]))]]

\* updateTrends: awaits the rows since seven days ago; what follows the
\* query only logs, so the tick ends here
IssueTrends ==
    \E o \in ReadOutcomes(TrendRows(covid_cases, today - 7)) :
        /\ tick' = [tick EXCEPT !["dailyStats"] = Idle]

\* the cron task of dailyStats fires: calculateDailyStatistics reads the
\* clock and awaits today's sums
DailyStatsTick ==
    /\ cronTasks["dailyStats"] > 0
    /\ tick["dailyStats"].pc = "idle"
    /\ \E o \in ReadOutcomes(SumsOn(covid_cases, today)) :
           /\ tick' = SetTick("dailyStats", "stats_today", today, executeQuery(o), NoCall)
    /\ UNCHANGED <<schedVars, today, covid_cases, data_sources, pureVars, vaccinations, hospitals>>

\* calculateDailyStatistics after today's sums: awaits yesterday's sums; when
\* the first query failed it goes on to updateTrends; a thrown error would be
\* rethrown to the tick's catch, which logs it
CalculateDailyStatisticsYesterday ==
    /\ tick["dailyStats"].pc = "stats_today"
    /\ LET t == tick["dailyStats"]
       IN  IF t.r1.completion = "throw"
           THEN /\ tick' = [tick EXCEPT !["dailyStats"] = Idle]
           ELSE IF t.r1.value.success /\ Len(t.r1.value.data) > 0
           THEN \E o \in ReadOutcomes(SumsOn(covid_cases, t.day - 1)) :
                    /\ tick' = SetTick("dailyStats", "stats_yesterday", t.day, t.r1,
                                       executeQuery(o))
           ELSE IssueTrends
    /\ UNCHANGED <<schedVars, today, covid_cases, data_sources, pureVars, vaccinations, hospitals>>

DeltaOutcomes(table, d, nc, nd, nr) ==
    IF FitsInt(nc) /\ FitsInt(nd) /\ FitsInt(nr)
    THEN WriteOutcomes(CopiesOf(table, RowsOn(table, d)))
    ELSE {Rejected("ER_WARN_DATA_OUT_OF_RANGE")}

\* calculateDailyStatistics after yesterday's sums: computes the three
\* deltas and awaits the UPDATE of today's rows (whose result it never reads)
CalculateDailyStatisticsWrite ==
    /\ tick["dailyStats"].pc = "stats_yesterday"
    /\ LET t == tick["dailyStats"]
       IN  IF t.r2.completion = "throw"
           THEN /\ tick' = [tick EXCEPT !["dailyStats"] = Idle]
                /\ UNCHANGED covid_cases
           ELSE IF t.r2.value.success /\ Len(t.r2.value.data) > 0
           THEN LET todayStats == t.r1.value.data[1]
                    yesterdayStats == t.r2.value.data[1]
                    newCases == DailyDelta(todayStats.total_cases,
                                           yesterdayStats.total_cases)
                    newDeaths == DailyDelta(todayStats.total_deaths,
                                            yesterdayStats.total_deaths)
                    newRecovered == DailyDelta(todayStats.total_recovered,
                                               yesterdayStats.total_recovered)
                IN  \E o \in DeltaOutcomes(covid_cases, t.day, newCases, newDeaths,
                                           newRecovered) :
                        /\ covid_cases' =
                               IF o.ok
                               THEN SetDailyDeltas(covid_cases, t.day, newCases.v,
                                                   newDeaths.v, newRecovered.v)
                               ELSE covid_cases
                        /\ tick' = SetTick("dailyStats", "stats_write", t.day,
                                           executeQuery(o), NoCall)
           ELSE /\ IssueTrends
                /\ UNCHANGED covid_cases
    /\ UNCHANGED <<schedVars, today, data_sources, pureVars, vaccinations, hospitals>>

\* after the UPDATE: updateTrends
UpdateTrends ==
    /\ tick["dailyStats"].pc = "stats_write"
    /\ IssueTrends
    /\ UNCHANGED <<schedVars, today, covid_cases, data_sources, pureVars, vaccinations, hospitals>>

----------------------------------------------------------------------------
(* Weekly report: generateWeeklyReport *)

\* SELECT COUNT(*), SUM(new_cases), ..., AVG(new_cases), MAX(new_cases),
\* MIN(new_cases) ... WHERE date BETWEEN from AND to; the average by its whole
\* part and its four decimals
WeeklyData(table, from, to) ==
    LET S == {r \in BagToSet(table) : r.date >= from /\ r.date <= to}
        sum == SumOver(table, "new_cases", S)
    IN  <<[total_records |-> Num(CopiesOf(table, S)),
           weekly_cases |-> SqlSum(table, "new_cases", S),
           weekly_deaths |-> SqlSum(table, "new_deaths", S),
           weekly_recovered |-> SqlSum(table, "new_recovered", S),
           avg_daily_cases |-> IF S = {} \/ sum < 0 THEN Null
                               ELSE [t |-> "decimal",
                                     whole |-> sum \div CopiesOf(table, S),
                                     tenThousandths |->
                                         (10000 * (sum % CopiesOf(table, S)))
                                             \div CopiesOf(table, S)],
           max_daily_cases |-> IF S = {} THEN Null
                               ELSE Num(CHOOSE x \in {r.new_cases : r \in S} :
                                            \A r \in S : r.new_cases <= x),
           min_daily_cases |-> IF S = {} THEN Null
                               ELSE Num(CHOOSE x \in {r.new_cases : r \in S} :
                                            \A r \in S : r.new_cases >= x)]>>

\* the cron task of weeklyReport fires: generateWeeklyReport awaits the
\* aggregate over the last seven days and logs it when the query succeeded;
\* nothing is stored, in the service or in the database
WeeklyReportTick ==
    /\ cronTasks["weeklyReport"] > 0
    /\ \E o \in ReadOutcomes(WeeklyData(covid_cases, today - 7, today)) :
           executeQuery(o).completion = "return"
    /\ UNCHANGED vars

----------------------------------------------------------------------------
(* The clock and the write path of the API *)

\* midnight
AdvanceDay ==
    /\ today < MaxDay
    /\ today' = today + 1
    /\ UNCHANGED <<schedVars, tick, covid_cases, data_sources, pureVars, vaccinations, hospitals>>

\* total_cases, deaths, recovered of a request body (each isInt({min: 0}))
PostCounters == {<<10, 0, 10>>}

\* POST /cases with today's date, a region_id and counters; municipality_id
\* given or not.
\* A parameter left undefined makes mysql2 reject the statement; a second row
\* for (date, region_id) violates unique_daily_region.
PostCases ==
    /\ BagCardinality(covid_cases) < MaxRows
    /\ \E region_id \in RegionIds, hasMunicipality \in BOOLEAN, c \in PostCounters :
           LET active_cases == c[1] - c[2] - c[3]
               row == Row(today, region_id, c[1], 0, active_cases, c[2], 0, c[3], 0)
               outcomes ==
                   IF ~hasMunicipality
                   THEN {Rejected("Bind parameters must not contain undefined")}
                   ELSE IF UniqueConflict(covid_cases, row)
                   THEN {Rejected("ER_DUP_ENTRY")}
                   ELSE WriteOutcomes(1)
           IN  \E o \in outcomes :
                   /\ covid_cases' = IF o.ok THEN Insert(covid_cases, row) ELSE covid_cases
    /\ UNCHANGED <<schedVars, tick, today, data_sources, pureVars, vaccinations, hospitals>>

----------------------------------------------------------------------------
(* 7-day moving averages *)

\* longest input sequence drawn (the worked example of length 10 apart)
MaxLen == 7

\* a + b, b a value read from a result row
JsAdd(a, b) ==
    CASE b.t = "number" -> JsPlus(a, b.v)
      [] b.t = "string" ->
            IF IsBig(a) THEN BigStr ELSE ConcatDigits(ToNumber(a), b.v)
      [] OTHER -> BigStr

RECURSIVE WindowSum(_, _, _, _)
\* data.slice(from - 1, to).reduce((sum, day) => sum + (day[field] || 0), 0),
\* indices counted from 1
WindowSum(data, field, from, to) ==
    IF to < from THEN Num(0)
    ELSE JsAdd(WindowSum(data, field, from, to - 1), JsOr(data[to][field], Num(0)))

\* a number with two decimals
Fixed2(whole, cents) == [whole |-> whole, cents |-> cents]
TooBig == [whole |-> -1, cents |-> 0]

\* Math.round(sum / 7 * 100) / 100: sum / 7 * 100 is never within 1/14 of a
\* half, so floating point rounds as the exact quotient does
RoundedAverage2(sum) ==
    IF IsBig(sum) THEN TooBig
    ELSE LET n == ToNumber(sum)
         IN  Fixed2(n \div 7, ((n % 7) * 200 + 7) \div 14)

\* Math.round(sum / 7): halves round up
RoundedAverage0(sum) ==
    IF IsBig(sum) THEN TooBig
    ELSE LET n == ToNumber(sum)
         IN  Fixed2((n \div 7) + (IF 2 * (n % 7) >= 7 THEN 1 ELSE 0), 0)

\* AutomationService.calculateMovingAverages: one entry per index i >= 6
calculateMovingAverages(data) ==
    [k \in 1..Max(0, Len(data) - 6) |->
        [date |-> data[k + 6].date,
         avg_cases |-> RoundedAverage2(WindowSum(data, "daily_cases", k, k + 6)),
         avg_deaths |-> RoundedAverage2(WindowSum(data, "daily_deaths", k, k + 6)),
         avg_recovered |-> RoundedAverage2(WindowSum(data, "daily_recovered", k, k + 6))]]

\* GET /cases/trends: every item, with ma_7_* added from index 6 on
trendsWithMA(data) ==
    [k \in DOMAIN data |->
        IF k - 1 >= 6
        THEN [ma_7_cases |-> RoundedAverage2(WindowSum(data, "daily_cases", k - 6, k)),
              ma_7_deaths |-> RoundedAverage2(WindowSum(data, "daily_deaths", k - 6, k)),
              ma_7_recovered |->
                  RoundedAverage2(WindowSum(data, "daily_recovered", k - 6, k))]
             @@ data[k]
        ELSE data[k]]

\* a string with exactly two decimals, by the number of hundredths it spells
FixedString(hundredths) == [t |-> "fixed2", hundredths |-> hundredths]

\* n / d for d > 0, rounded to the nearest integer, halves away from zero
RoundDiv(n, d) ==
    LET m == IF n >= 0 THEN n ELSE 0 - n
        q == (m \div d) + (IF 2 * (m % d) >= d THEN 1 ELSE 0)
    IN  IF n >= 0 THEN q ELSE 0 - q

pctChangeUnguarded(curr, prev) ==
    IF ToNumber(prev) = 0 THEN [t |-> "NaN", hundredths |-> 0]
    ELSE FixedString(RoundDiv(10000 * (ToNumber(curr) - ToNumber(prev)), ToNumber(prev)))

\* prev > 0 ? (((curr - prev) / prev) * 100).toFixed(2) : '0.00'
pctChange(curr, prev) ==
    IF ToNumber(prev) > 0
    THEN FixedString(RoundDiv(10000 * (ToNumber(curr) - ToNumber(prev)), ToNumber(prev)))
    ELSE FixedString(0)

\* GET /statistics/trends: every item, with ma_7_* added from index 6 on and
\* cases_change_pct, deaths_change_pct from index 1 on
trendsData(data) ==
    [k \in DOMAIN data |->
        (IF k - 1 >= 6
         THEN [ma_7_cases |-> RoundedAverage0(WindowSum(data, "daily_cases", k - 6, k)),
               ma_7_deaths |-> RoundedAverage0(WindowSum(data, "daily_deaths", k - 6, k)),
               ma_7_recovered |->
                   RoundedAverage0(WindowSum(data, "daily_recovered", k - 6, k))]
         ELSE <<>>)
        @@ (IF k - 1 > 0
            THEN [cases_change_pct |->
                      pctChange(data[k].daily_cases, data[k - 1].daily_cases),
                  deaths_change_pct |->
                      pctChange(data[k].daily_deaths, data[k - 1].daily_deaths)]
            ELSE <<>>)
        @@ data[k]]

\* a row of the trends query: its columns are SUM()s, so DECIMALs
TrendRow(date, cases, deaths, recovered) ==
    [date |-> date, daily_cases |-> Decimal(cases), daily_deaths |-> Decimal(deaths),
     daily_recovered |-> Decimal(recovered)]

\* the same item with JavaScript numbers, as a caller holding numbers passes it
NumberItem(date, cases, deaths, recovered) ==
    [date |-> date, daily_cases |-> Num(cases), daily_deaths |-> Num(deaths),
     daily_recovered |-> Num(recovered)]

\* the drawn input sequences: daily counts 0, 3, 5 over 7..MaxLen days and
\* the worked example daily_cases [5,6,7,8,9,10,11,12,13,14], as rows of the
\* query and as numbers
MAInputs ==
    LET WorkedExample == [k \in 1..10 |-> k + 4]
        DailyCounts == UNION {[1..n -> {0, 3, 5}] : n \in 7..MaxLen} \cup {WorkedExample}
    IN  {[k \in DOMAIN f |-> TrendRow(k, f[k], 0, f[k])] : f \in DailyCounts}
          \cup {[k \in DOMAIN f |-> NumberItem(k, f[k], 0, f[k])] : f \in DailyCounts}

NotComputed == [by |-> "none", out |-> <<>>]
NoInput == [kind |-> "none"]

CalculateMovingAverages ==
    /\ maData # <<>>
    /\ maOut' = [by |-> "calculateMovingAverages", out |-> calculateMovingAverages(maData)]
    /\ UNCHANGED <<schedVars, tick, today, covid_cases, data_sources, gwVars, maData,
                   calcVars, vaccinations, hospitals>>

CasesTrends ==
    /\ maData # <<>>
    /\ maOut' = [by |-> "trendsWithMA", out |-> trendsWithMA(maData)]
    /\ UNCHANGED <<schedVars, tick, today, covid_cases, data_sources, gwVars, maData,
                   calcVars, vaccinations, hospitals>>

StatisticsTrends ==
    /\ maData # <<>>
    /\ maOut' = [by |-> "trendsData", out |-> trendsData(maData)]
    /\ UNCHANGED <<schedVars, tick, today, covid_cases, data_sources, gwVars, maData,
                   calcVars, vaccinations, hospitals>>

----------------------------------------------------------------------------
(* Period comparison: GET /statistics/comparison *)

\* AVG() of an INT column: a DECIMAL with four decimals, delivered as a
\* string; by the number of ten-thousandths it spells
Decimal4(tenThousandths) == [t |-> "decimal4", v |-> tenThousandths]

RECURSIVE DigitsOf(_)
\* the decimal digits of n >= 0
DigitsOf(n) == IF n < 10 THEN <<n>> ELSE Append(DigitsOf(n \div 10), n % 10)

\* the characters of a numeric string, a digit by its value and "." by -1
\* ("." sorts before every digit)
Chars(x) ==
    IF x.t = "decimal4"
    THEN DigitsOf(x.v \div 10000) \o <<-1>>
         \o <<(x.v \div 1000) % 10, (x.v \div 100) % 10, (x.v \div 10) % 10, x.v % 10>>
    ELSE DigitsOf(x.v)

RECURSIVE SeqLess(_, _)
\* lexicographic order of two sequences of characters
SeqLess(a, b) ==
    IF b = <<>> THEN FALSE
    ELSE IF a = <<>> THEN TRUE
    ELSE IF Head(a) # Head(b) THEN Head(a) < Head(b)
    ELSE SeqLess(Tail(a), Tail(b))

IsString(x) == x.t \in {"string", "decimal4"}

\* the number a value spells, counted in units of its own scale: a SUM() in
\* units, an AVG() in ten-thousandths (null is 0)
Scaled(x) == IF x.t \in {"number", "string", "decimal4"} THEN Num(x.v) ELSE Num(0)

\* a > b: two strings compare character by character, anything else as numbers
JsGreater(a, b) ==
    IF IsString(a) /\ IsString(b) THEN SeqLess(Chars(b), Chars(a))
    ELSE Scaled(a).v > Scaled(b).v

\* current > previous ? 'increasing' : current < previous ? 'decreasing' : 'stable'
Trend(current, previous) ==
    IF JsGreater(current, previous) THEN "increasing"
    ELSE IF JsGreater(previous, current) THEN "decreasing"
    ELSE "stable"

\* Math.round(x || 0) of an AVG(): halves round up
RoundAvg(x) == IF x.t = "decimal4" THEN Num((x.v + 5000) \div 10000) ELSE Num(0)

\* the `comparison` object of the response
comparison(current, previous) ==
    [cases |->
        [current |-> JsOr(current.total_cases, Num(0)),
         previous |-> JsOr(previous.total_cases, Num(0)),
         change |-> pctChange(current.total_cases, previous.total_cases),
         trend |-> Trend(current.total_cases, previous.total_cases)],
     deaths |->
        [current |-> JsOr(current.total_deaths, Num(0)),
         previous |-> JsOr(previous.total_deaths, Num(0)),
         change |-> pctChange(current.total_deaths, previous.total_deaths),
         trend |-> Trend(current.total_deaths, previous.total_deaths)],
     recovered |->
        [current |-> JsOr(current.total_recovered, Num(0)),
         previous |-> JsOr(previous.total_recovered, Num(0)),
         change |-> pctChange(current.total_recovered, previous.total_recovered),
         trend |-> Trend(current.total_recovered, previous.total_recovered)],
     hospitalized |->
        [current |-> RoundAvg(current.avg_hospitalized),
         previous |-> RoundAvg(previous.avg_hospitalized),
         change |-> pctChange(Scaled(current.avg_hospitalized),
                              Scaled(previous.avg_hospitalized)),
         trend |-> Trend(current.avg_hospitalized, previous.avg_hospitalized)]]

\* the rows of the two periods: NULLs when a period holds no row, else sums
\* 0, 3, 50 (deaths 0, 3, 10) and averages of 0, 1.5 and 12
ComparisonInputs ==
    LET PeriodRows ==
            {[total_cases |-> Null, total_deaths |-> Null, total_recovered |-> Null,
              avg_hospitalized |-> Null]}
            \cup {[total_cases |-> Decimal(a), total_deaths |-> Decimal(b),
                   total_recovered |-> Decimal(a), avg_hospitalized |-> Decimal4(h)] :
                     a \in {0, 3, 50}, b \in {0, 3, 10}, h \in {0, 15000, 120000}}
    IN  {[kind |-> "comparison", current |-> c, previous |-> p] : c, p \in PeriodRows}

StatisticsComparison ==
    /\ calcIn.kind = "comparison"
    /\ calcOut' = [by |-> "comparison", out |-> comparison(calcIn.current, calcIn.previous)]
    /\ UNCHANGED <<schedVars, tick, today, covid_cases, data_sources, gwVars, maVars, calcIn,
                   vaccinations, hospitals>>

\* generateWeeklyReport and updateTrends over a table with at most one
\* national row per date, as what each logs after its query
GenerateWeeklyReport ==
    /\ calcIn.kind = "week"
    /\ calcOut' = [by |-> "weeklyReport",
                   out |-> WeeklyData(calcIn.table, calcIn.today - 7, calcIn.today)[1]]
    /\ UNCHANGED <<schedVars, tick, today, covid_cases, data_sources, gwVars, maVars, calcIn,
                   vaccinations, hospitals>>

LogTrends ==
    /\ calcIn.kind = "week"
    /\ LET data == TrendRows(calcIn.table, calcIn.today - 7)
       IN  calcOut' = [by |-> "updateTrends", read |-> data,
                       out |-> IF Len(data) >= 7 THEN calculateMovingAverages(data)
                               ELSE <<>>]
    /\ UNCHANGED <<schedVars, tick, today, covid_cases, data_sources, gwVars, maVars, calcIn,
                   vaccinations, hospitals>>

freshnessStatusInclusive(hoursOld) ==
    IF hoursOld = Null THEN "no_data"
    ELSE IF hoursOld.v <= 24 THEN "fresh"
    ELSE IF hoursOld.v <= 72 THEN "stale"
    ELSE "very_stale"

\* hoursOld === null ? 'no_data' : hoursOld < 24 ? 'fresh' :
\* hoursOld < 72 ? 'stale' : 'very_stale'
freshnessStatus(hoursOld) ==
    IF hoursOld = Null THEN "no_data"
    ELSE IF hoursOld.v < 24 THEN "fresh"
    ELSE IF hoursOld.v < 72 THEN "stale"
    ELSE "very_stale"

RECURSIVE freshnessResults(_, _)
\* the loop of GET /health/data-freshness over the outcomes of its queries,
\* times in minutes: a check whose query failed adds no result
freshnessResults(checks, now) ==
    IF checks = <<>> THEN <<>>
    ELSE LET result == executeQuery(Head(checks))
             rest == freshnessResults(Tail(checks), now)
         IN  IF result.completion = "return" /\ result.value.success
                /\ Len(result.value.data) > 0
             THEN LET data == result.value.data[1]
                      hoursOld == IF Truthy(data.last_updated)
                                  THEN Num((now - data.last_updated.v) \div 60)
                                  ELSE Null
                  IN  <<[last_updated |-> data.last_updated,
                         hours_since_update |-> hoursOld,
                         status |-> freshnessStatus(hoursOld)]>> \o rest
             ELSE rest

\* GET /health/data-freshness: the results and the overall status
dataFreshness(checks, now) ==
    LET results == freshnessResults(checks, now)
    IN  [overall_status |->
             IF \A k \in DOMAIN results : results[k].status = "fresh" THEN "fresh"
             ELSE IF \E k \in DOMAIN results : results[k].status = "very_stale"
             THEN "very_stale"
             ELSE "stale",
         data |-> results]

GetDataFreshness ==
    /\ calcIn.kind = "freshness"
    /\ calcOut' = [by |-> "dataFreshness", out |-> dataFreshness(calcIn.checks, calcIn.now)]
    /\ UNCHANGED <<schedVars, tick, today, covid_cases, data_sources, gwVars, maVars, calcIn,
                   vaccinations, hospitals>>

\* longest of the short trend sequences drawn for the percentage change
MaxShortLen == 2

ShortTrends ==
    UNION {[1..n -> {TrendRow(0, a, b, a) : a \in {0, 3, 50}, b \in {0, 3, 10}}] :
              n \in 1..MaxShortLen}

----------------------------------------------------------------------------
(* The CovidCase model object *)

\* ((numerator / denominator) * scale).toFixed(2): "NaN" and "Infinity" are
\* what toFixed gives for NaN and Infinity
JsRatio(numerator, denominator, scale) ==
    IF numerator.t = "undefined" \/ denominator.t = "undefined"
    THEN [t |-> "NaN", hundredths |-> 0]
    ELSE IF ToNumber(denominator) = 0
    THEN [t |-> IF ToNumber(numerator) = 0 THEN "NaN" ELSE "Infinity", hundredths |-> 0]
    ELSE IF ToNumber(denominator) < 0
    THEN FixedString(RoundDiv(0 - 100 * scale * ToNumber(numerator),
                              0 - ToNumber(denominator)))
    ELSE FixedString(RoundDiv(100 * scale * ToNumber(numerator), ToNumber(denominator)))

PercentageUnguarded(numerator, denominator) == JsRatio(numerator, denominator, 100)

\* denominator > 0 ? ((numerator / denominator) * 100).toFixed(2) : '0.00'
Percentage(numerator, denominator) ==
    IF ToNumber(denominator) > 0 THEN JsRatio(numerator, denominator, 100)
    ELSE FixedString(0)

\* new CovidCase(data): a counter left out is 0
CovidCase(data) ==
    [date |-> data.date,
     region_id |-> data.region_id,
     total_cases |-> JsOr(data.total_cases, Num(0)),
     active_cases |-> JsOr(data.active_cases, Num(0)),
     deaths |-> JsOr(data.deaths, Num(0)),
     recovered |-> JsOr(data.recovered, Num(0))]

getCaseFatalityRate(this) == Percentage(this.deaths, this.total_cases)
getRecoveryRate(this) == Percentage(this.recovered, this.total_cases)
getActiveCaseRate(this) == Percentage(this.active_cases, this.total_cases)

toJSON(this) ==
    [case_fatality_rate |-> getCaseFatalityRate(this),
     recovery_rate |-> getRecoveryRate(this),
     active_case_rate |-> getActiveCaseRate(this)]
    @@ this

validateNoCrossCheck(this) ==
    LET errors ==
            (IF ~Truthy(this.date) THEN <<"Date is required">> ELSE <<>>)
            \o (IF this.total_cases.v < 0
                THEN <<"Total cases cannot be negative">> ELSE <<>>)
            \o (IF this.deaths.v < 0 THEN <<"Deaths cannot be negative">> ELSE <<>>)
            \o (IF this.recovered.v < 0
                THEN <<"Recovered cases cannot be negative">> ELSE <<>>)
    IN  [isValid |-> Len(errors) = 0, errors |-> errors]

validate(this) ==
    LET errors ==
            (IF ~Truthy(this.date) THEN <<"Date is required">> ELSE <<>>)
            \o (IF this.total_cases.v < 0
                THEN <<"Total cases cannot be negative">> ELSE <<>>)
            \o (IF this.deaths.v < 0 THEN <<"Deaths cannot be negative">> ELSE <<>>)
            \o (IF this.recovered.v < 0
                THEN <<"Recovered cases cannot be negative">> ELSE <<>>)
            \o (IF this.deaths.v > this.total_cases.v
                THEN <<"Deaths cannot exceed total cases">> ELSE <<>>)
            \o (IF this.recovered.v > this.total_cases.v
                THEN <<"Recovered cases cannot exceed total cases">> ELSE <<>>)
    IN  [isValid |-> Len(errors) = 0, errors |-> errors]

\* the data a CovidCase is built with: a date string (by the day it spells) or
\* no date; counters left out, negative, zero, the worked example (10 deaths
\* of 200 cases) and one above the other
CaseInputs ==
    {[kind |-> "case",
      data |-> [date |-> d, region_id |-> rg, total_cases |-> tc, active_cases |-> ac,
                deaths |-> dt, recovered |-> rc]] :
        d \in {Undefined, Str(0)}, rg \in {NoRegion} \cup RegionIds,
        tc \in {Num(-1), Num(0), Num(10), Num(200)}, ac \in {Num(0), Num(5)},
        dt \in {Undefined, Num(-1), Num(0), Num(10), Num(20)},
        rc \in {Num(-1), Num(0), Num(20)}}

ToJSON ==
    /\ calcIn.kind = "case"
    /\ calcOut' = [by |-> "toJSON", out |-> toJSON(CovidCase(calcIn.data))]
    /\ UNCHANGED <<schedVars, tick, today, covid_cases, data_sources, gwVars, maVars, calcIn,
                   vaccinations, hospitals>>

Validate ==
    /\ calcIn.kind = "case"
    /\ calcOut' = [by |-> "validate", out |-> validate(CovidCase(calcIn.data))]
    /\ UNCHANGED <<schedVars, tick, today, covid_cases, data_sources, gwVars, maVars, calcIn,
                   vaccinations, hospitals>>

\* the row create() inserts for a CovidCase
CaseRow(this) ==
    Row(this.date.v, this.region_id, this.total_cases.v, 0, this.active_cases.v,
        this.deaths.v, 0, this.recovered.v, 0)

\* the INSERT of create(): date is NOT NULL, the counters are INT columns and
\* a second row for (date, region_id) violates unique_daily_region
CreateOutcomes(table, this) ==
    IF this.date.t = "undefined"
    THEN {Rejected("Bind parameters must not contain undefined")}
    ELSE IF UniqueConflict(table, CaseRow(this)) THEN {Rejected("ER_DUP_ENTRY")}
    ELSE WriteOutcomes(1)

\* save() of a CovidCase without id: create(), which returns whether the
\* INSERT succeeded
Save ==
    /\ calcIn.kind = "case"
    /\ BagCardinality(covid_cases) < MaxRows
    /\ LET this == CovidCase(calcIn.data)
       IN  \E o \in CreateOutcomes(covid_cases, this) :
               LET result == executeQuery(o)
                   success == result.completion = "return" /\ result.value.success
               IN  /\ covid_cases' = IF success THEN Insert(covid_cases, CaseRow(this))
                                     ELSE covid_cases
                   /\ calcOut' = [by |-> "save", out |-> success]
    /\ UNCHANGED <<schedVars, tick, today, data_sources, gwVars, maVars, calcIn,
                   vaccinations, hospitals>>

----------------------------------------------------------------------------
(* National overview: GET /statistics/overview *)

\* the rates of the overview, from the one row each aggregate query returns
overview(cases, vaccination, hospital, population) ==
    LET totalPopulation == JsOr(population.total_population, Num(1))
        totalCases == JsOr(cases.total_cases, Num(0))
    IN  [cases |->
             [total |-> totalCases,
              deaths |-> JsOr(cases.total_deaths, Num(0)),
              recovered |-> JsOr(cases.total_recovered, Num(0)),
              case_fatality_rate |-> Percentage(cases.total_deaths, totalCases),
              recovery_rate |-> Percentage(cases.total_recovered, totalCases),
              incidence_rate |-> JsRatio(totalCases, totalPopulation, 100000)],
         vaccination |->
             [people_vaccinated |-> JsOr(vaccination.people_vaccinated, Num(0)),
              vaccination_rate |->
                  JsRatio(vaccination.people_vaccinated, totalPopulation, 100)],
         hospital_capacity |->
             [total_beds |-> JsOr(hospital.total_beds, Num(0)),
              occupied_beds |-> JsOr(hospital.occupied_beds, Num(0)),
              occupancy_rate |-> Percentage(hospital.occupied_beds, hospital.total_beds),
              covid_bed_occupancy |->
                  Percentage(hospital.occupied_covid_beds, hospital.covid_beds),
              icu_occupancy |-> Percentage(hospital.occupied_icu_beds, hospital.icu_beds),
              ventilator_usage |->
                  Percentage(hospital.occupied_ventilators, hospital.ventilators)],
         population |-> [total |-> totalPopulation]]

\* the rows of the aggregate queries: SUM() over no row is NULL, over rows a
\* DECIMAL; beds or devices come with how many of them are occupied
OverviewInputs ==
    LET BedPairs == {<<0, 0>>, <<8, 3>>, <<100, 50>>}
        OverviewCases ==
            {[total_cases |-> Null, total_deaths |-> Null, total_recovered |-> Null]}
            \cup {[total_cases |-> Decimal(c), total_deaths |-> Decimal(d),
                   total_recovered |-> Decimal(r)] :
                      c \in {0, 3, 200}, d \in {0, 10}, r \in {0, 3}}
        OverviewHospitals ==
            {[total_beds |-> Null, occupied_beds |-> Null, covid_beds |-> Null,
              occupied_covid_beds |-> Null, icu_beds |-> Null, occupied_icu_beds |-> Null,
              ventilators |-> Null, occupied_ventilators |-> Null]}
            \cup {[total_beds |-> Decimal(b[1]), occupied_beds |-> Decimal(b[2]),
                   covid_beds |-> Decimal(c[1]), occupied_covid_beds |-> Decimal(c[2]),
                   icu_beds |-> Decimal(i[1]), occupied_icu_beds |-> Decimal(i[2]),
                   ventilators |-> Decimal(v[1]), occupied_ventilators |-> Decimal(v[2])] :
                      b \in BedPairs, c \in BedPairs, i \in BedPairs, v \in BedPairs}
    IN  {[kind |-> "overview", cases |-> c,
          vaccination |-> [people_vaccinated |-> v], hospital |-> h,
          population |-> [total_population |-> p]] :
            c \in OverviewCases, v \in {Null, Decimal(0), Decimal(25000)},
            h \in OverviewHospitals, p \in {Null, Decimal(0), Decimal(100000)}}

StatisticsOverview ==
    /\ calcIn.kind = "overview"
    /\ calcOut' = [by |-> "overview",
                   out |-> overview(calcIn.cases, calcIn.vaccination, calcIn.hospital,
                                    calcIn.population)]
    /\ UNCHANGED <<schedVars, tick, today, covid_cases, data_sources, gwVars, maVars, calcIn,
                   vaccinations, hospitals>>

----------------------------------------------------------------------------
(* Regional statistics: GET /statistics/regional, GET /regions, GET /vaccinations *)

RECURSIVE ScaledDiv(_, _, _)
\* n * k / d for d > 0, rounded to the nearest integer (common factors of ten
\* cancelled first)
ScaledDiv(n, k, d) ==
    IF k % 10 = 0 /\ d % 10 = 0 THEN ScaledDiv(n, k \div 10, d \div 10)
    ELSE RoundDiv(n * k, d)

\* ROUND((numerator / population) * scale, 2) in SQL: a DECIMAL with two
\* decimals, NULL when the divisor is 0 or NULL
SqlRate(numerator, population, scale) ==
    IF population.t = "null" \/ population.v = 0 THEN Null
    ELSE FixedString(ScaledDiv(numerator, 100 * scale, population.v))

\* how often a LEFT JOIN repeats the rows it is joined to: once per matching
\* row, once when nothing matches
Fanout(matching) == IF matching = 0 THEN 1 ELSE matching

RECURSIVE SeqSum(_)
SeqSum(s) == IF s = <<>> THEN 0 ELSE Head(s) + SeqSum(Tail(s))

\* the row of one region in GET /statistics/regional: regions LEFT JOIN the
\* region's covid_cases rows of its latest date LEFT JOIN its vaccinations
\* LEFT JOIN its hospitals, grouped by region; every SUM runs over the joined
\* rows
regionalRow(region, cases, vaccinated, hospitalRows) ==
    LET total_cases == SeqSum([k \in DOMAIN cases |-> cases[k].total_cases])
                           * Fanout(Len(vaccinated)) * Fanout(hospitalRows)
        total_deaths == SeqSum([k \in DOMAIN cases |-> cases[k].deaths])
                            * Fanout(Len(vaccinated)) * Fanout(hospitalRows)
        people_vaccinated == SeqSum(vaccinated) * Fanout(Len(cases)) * Fanout(hospitalRows)
    IN  [population |-> region.population,
         total_cases |-> Decimal(total_cases),
         total_deaths |-> Decimal(total_deaths),
         people_vaccinated |-> Decimal(people_vaccinated),
         cases_per_100k |-> SqlRate(total_cases, region.population, 100000),
         deaths_per_100k |-> SqlRate(total_deaths, region.population, 100000),
         vaccination_rate |-> SqlRate(people_vaccinated, region.population, 100)]

\* the row of one region in GET /regions?include_stats=true: the same joins
\* and the region's municipalities
regionsRow(region, cases, vaccinated, hospitalRows, municipalities) ==
    LET total_cases == SeqSum([k \in DOMAIN cases |-> cases[k].total_cases])
                           * Fanout(Len(vaccinated)) * Fanout(hospitalRows)
                           * Fanout(municipalities)
        people_vaccinated == SeqSum(vaccinated) * Fanout(Len(cases)) * Fanout(hospitalRows)
                                 * Fanout(municipalities)
    IN  [population |-> region.population,
         total_cases |-> Decimal(total_cases),
         people_vaccinated |-> Decimal(people_vaccinated),
         cases_per_100k |-> SqlRate(total_cases, region.population, 100000),
         vaccination_rate |-> SqlRate(people_vaccinated, region.population, 100)]

\* the rows of GET /vaccinations for one region: each vaccinations row with
\* its region's population
vaccinationRows(region, vaccinated) ==
    [k \in DOMAIN vaccinated |->
        [people_vaccinated |-> Num(vaccinated[k]), population |-> region.population,
         vaccination_rate |-> SqlRate(vaccinated[k], region.population, 100)]]

\* a region (population INT DEFAULT 0, nullable), its covid_cases rows of its
\* latest date (at most one: unique_daily_region), the people_vaccinated of
\* its vaccinations rows, and how many hospitals and municipalities it has
RegionInputs ==
    {[kind |-> "region", region |-> [population |-> p], cases |-> c, vaccinated |-> v,
      hospitals |-> h, municipalities |-> mu] :
        p \in {Null, Num(0), Num(100000)},
        c \in {<<>>} \cup {<<[total_cases |-> tc, deaths |-> d]>> : tc \in {0, 50}, d \in {0, 5}},
        v \in {<<>>, <<25000>>, <<25000, 1000>>},
        h \in 0..2, mu \in 0..2}

StatisticsRegional ==
    /\ calcIn.kind = "region"
    /\ calcOut' = [by |-> "regional",
                   out |-> regionalRow(calcIn.region, calcIn.cases, calcIn.vaccinated,
                                       calcIn.hospitals)]
    /\ UNCHANGED <<schedVars, tick, today, covid_cases, data_sources, gwVars, maVars, calcIn,
                   vaccinations, hospitals>>

RegionsWithStats ==
    /\ calcIn.kind = "region"
    /\ calcOut' = [by |-> "regions",
                   out |-> regionsRow(calcIn.region, calcIn.cases, calcIn.vaccinated,
                                      calcIn.hospitals, calcIn.municipalities)]
    /\ UNCHANGED <<schedVars, tick, today, covid_cases, data_sources, gwVars, maVars, calcIn,
                   vaccinations, hospitals>>

\* the row of GET /regions/:id: regions LEFT JOIN the region's covid_cases
\* rows LEFT JOIN its vaccinations, hospitals, testing centers (none here) and
\* municipalities, grouped by region
regionById(region, cases, vaccinated, hospitalRows, municipalities) ==
    LET total_cases == SeqSum([k \in DOMAIN cases |-> cases[k].total_cases])
                           * Fanout(Len(vaccinated)) * Fanout(hospitalRows)
                           * Fanout(0) * Fanout(municipalities)
        people_vaccinated == SeqSum(vaccinated) * Fanout(Len(cases)) * Fanout(hospitalRows)
                                 * Fanout(0) * Fanout(municipalities)
    IN  [population |-> region.population,
         total_cases |-> Decimal(total_cases),
         people_vaccinated |-> Decimal(people_vaccinated),
         hospitals |-> Num(hospitalRows),
         municipalities |-> Num(municipalities),
         cases_per_100k |-> SqlRate(total_cases, region.population, 100000),
         vaccination_rate |-> SqlRate(people_vaccinated, region.population, 100)]

GetRegion ==
    /\ calcIn.kind = "region"
    /\ calcOut' = [by |-> "region",
                   out |-> regionById(calcIn.region, calcIn.cases, calcIn.vaccinated,
                                      calcIn.hospitals, calcIn.municipalities)]
    /\ UNCHANGED <<schedVars, tick, today, covid_cases, data_sources, gwVars, maVars, calcIn,
                   vaccinations, hospitals>>

GetVaccinations ==
    /\ calcIn.kind = "region"
    /\ calcOut' = [by |-> "vaccinations",
                   out |-> vaccinationRows(calcIn.region, calcIn.vaccinated)]
    /\ UNCHANGED <<schedVars, tick, today, covid_cases, data_sources, gwVars, maVars, calcIn,
                   vaccinations, hospitals>>

----------------------------------------------------------------------------
(* Error responses: GET /cases, the global error handler *)

\* GET /cases: the count query, then the page query; a failed page query is
\* answered with 500 and the gateway's error, a failed count query counts as 0
getCases(countOutcome, dataOutcome) ==
    LET countResult == executeQuery(countOutcome)
        dataResult == executeQuery(dataOutcome)
        Caught(error) ==
            [status |-> 500, error |-> "Internal server error", message |-> error.message]
    IN  IF countResult.completion = "throw" THEN Caught(countResult.value)
        ELSE IF dataResult.completion = "throw" THEN Caught(dataResult.value)
        ELSE IF ~dataResult.value.success
        THEN [status |-> 500, error |-> "Failed to fetch cases data",
              message |-> dataResult.value.error]
        ELSE [status |-> 200, error |-> "", message |-> ""]

\* app.use((err, req, res, next) => ...): reached by what a middleware throws
\* or passes to next
globalErrorHandler(NODE_ENV, err) ==
    [status |-> 500, error |-> "Internal Server Error",
     message |-> IF NODE_ENV = "development" THEN err.message ELSE "Something went wrong"]

\* a request in an environment, with what pool.execute does with its queries
RequestInputs ==
    {[kind |-> "request", NODE_ENV |-> env, countOutcome |-> c, dataOutcome |-> d] :
        env \in {"development", "production", "test"},
        c \in {Resolved(<<[total |-> 0]>>)} \cup {Rejected(e) : e \in ConnectionErrors},
        d \in {Resolved(<<>>)} \cup {Rejected(e) : e \in ErrorMessages}}

GetCases ==
    /\ calcIn.kind = "request"
    /\ calcOut' = [by |-> "getCases",
                   out |-> getCases(calcIn.countOutcome, calcIn.dataOutcome)]
    /\ UNCHANGED <<schedVars, tick, today, covid_cases, data_sources, gwVars, maVars, calcIn,
                   vaccinations, hospitals>>

\* an error reaches the global handler
GlobalErrorHandler ==
    /\ calcIn.kind = "request"
    /\ ~calcIn.dataOutcome.ok
    /\ calcOut' = [by |-> "globalErrorHandler",
                   out |-> globalErrorHandler(calcIn.NODE_ENV, calcIn.dataOutcome.error)]
    /\ UNCHANGED <<schedVars, tick, today, covid_cases, data_sources, gwVars, maVars, calcIn,
                   vaccinations, hospitals>>

----------------------------------------------------------------------------
(* Hospital routes: GET /hospitals/:id, PUT /hospitals/:id/capacity *)

\* the :id of a request path: not a number, or a number from 1 on
PathIds == {[t |-> "text", v |-> 0]} \cup {Num(n) : n \in 1..(MaxHospitals + 1)}

\* WHERE id = ?: a text that spells no number compares as 0
MatchingIds(table, id) == {h \in DOMAIN table : id.t = "number" /\ id.v = h}

\* handleValidationErrors: 400 with the issues when the validators recorded
\* any, else next() into the handler
handleValidationErrors(errors, next) ==
    IF errors # <<>>
    THEN [status |-> 400, error |-> "Validation failed", details |-> errors, queries |-> 0]
    ELSE next

\* GET /hospitals/:id: its validator query('id').isInt({min: 1}) looks at the
\* query string and no handleValidationErrors follows it, so the handler runs
\* whatever the validator recorded
getHospital(table, id, outcome) ==
    LET result == executeQuery(outcome)
    IN  IF result.completion = "throw" \/ ~result.value.success
        THEN [status |-> 500, error |-> "Failed to fetch hospital data", queries |-> 1]
        ELSE IF Len(result.value.data) = 0
        THEN [status |-> 404, error |-> "Hospital not found", queries |-> 1]
        ELSE [status |-> 200, error |-> "", queries |-> 1]

\* the route GET /hospitals/:id: query('id').isInt({min: 1}) records its
\* issues for the field id of the query string, where a request for
\* /hospitals/:id usually has none, and the handler follows at once
GetHospital ==
    /\ \E id \in PathIds, queryId \in {Undefined, Num(1)} :
           \E o \in ReadOutcomes(IF MatchingIds(hospitals, id) = {} THEN <<>>
                                 ELSE <<hospitals[id.v]>>) :
               calcOut' = [by |-> "getHospital", id |-> id,
                           issues |-> IF queryId.t = "number" /\ queryId.v >= 1
                                      THEN <<>>
                                      ELSE <<[path |-> "id", msg |-> "Invalid value"]>>,
                           out |-> getHospital(hospitals, id, o)]
    /\ UNCHANGED <<schedVars, tick, today, covid_cases, data_sources, vaccinations, hospitals,
                   gwVars, maVars, calcIn>>

\* PUT /hospitals/:id/capacity: body('occupied_*').optional().isInt({min: 0})
\* record their issues, handleValidationErrors answers them, and the UPDATE
\* sets the occupancies the body gives and nothing else
PutHospitalCapacity ==
    /\ \E id \in PathIds, occupied_beds \in {Undefined, Num(-1), Num(50)} :
           LET body == [occupied_beds |-> occupied_beds]
               affected == MatchingIds(hospitals, id)
               issues == IF body.occupied_beds.t = "number" /\ body.occupied_beds.v < 0
                         THEN <<[path |-> "occupied_beds", msg |-> "Invalid value"]>>
                         ELSE <<>>
           IN  IF issues # <<>> \/ body.occupied_beds = Undefined
               THEN /\ calcOut' =
                           [by |-> "putCapacity", id |-> id, issues |-> issues,
                            out |-> handleValidationErrors(
                                        issues,
                                        [status |-> 400,
                                         error |-> "No capacity data provided for update",
                                         queries |-> 0])]
                    /\ UNCHANGED hospitals
               ELSE \E o \in WriteOutcomes(Cardinality(affected)) :
                        /\ hospitals' =
                               IF o.ok
                               THEN [h \in DOMAIN hospitals |->
                                        IF h \in affected
                                        THEN [hospitals[h] EXCEPT
                                                 !.occupied_beds = body.occupied_beds.v]
                                        ELSE hospitals[h]]
                               ELSE hospitals
                        /\ calcOut' =
                               [by |-> "putCapacity", id |-> id, issues |-> <<>>,
                                out |-> IF ~o.ok
                                        THEN [status |-> 500,
                                              error |-> "Failed to update hospital capacity",
                                              queries |-> 1]
                                        ELSE IF affected = {}
                                        THEN [status |-> 404, error |-> "Hospital not found",
                                              queries |-> 1]
                                        ELSE [status |-> 200, error |-> "", queries |-> 1]]
    /\ UNCHANGED <<schedVars, tick, today, covid_cases, data_sources, vaccinations, gwVars,
                   maVars, calcIn>>

----------------------------------------------------------------------------
(* Specifications *)

\* the service as constructed, the database as initDatabase leaves it
InitService ==
    /\ isRunning = FALSE
    /\ jobs = {}
    /\ cronTasks = [n \in JobNames |-> 0]
    /\ tick = [n \in JobNames |-> Idle]
    /\ today = 0
    /\ covid_cases = EmptyBag
    /\ data_sources = [n \in SourceNames |->
                          [error_count |-> 0, last_error |-> NullText, last_updated |-> 0]]
    /\ vaccinations \in {[tracked |-> b, rows |-> EmptyBag] : b \in BOOLEAN}

Init ==
    /\ InitService
    /\ ~vaccinations.tracked
    /\ hospitals = <<>>
    /\ maData = <<>>
    /\ maOut = NotComputed
    /\ gwOutcome = Resolved(<<>>)
    /\ gwCall = NoCall
    /\ calcIn = NoInput
    /\ calcOut = NotComputed

Next ==
    \/ Start
    \/ Stop
    \/ DataUpdateTick
    \/ UpdateCovidDataWrite
    \/ UpdateCovidDataSource
    \/ UpdateHospitalCapacity
    \/ UpdateVaccinationData
    \/ DailyStatsTick
    \/ CalculateDailyStatisticsYesterday
    \/ CalculateDailyStatisticsWrite
    \/ UpdateTrends
    \/ WeeklyReportTick
    \/ AdvanceDay
    \/ PostCases

Spec == Init /\ [][Next]_vars

\* the data refresh and POST /vaccinations with the vaccinations table followed
InitVaccinations ==
    /\ InitService
    /\ vaccinations.tracked
    /\ hospitals = <<>>
    /\ maData = <<>>
    /\ maOut = NotComputed
    /\ gwOutcome = Resolved(<<>>)
    /\ gwCall = NoCall
    /\ calcIn = NoInput
    /\ calcOut = NotComputed

NextVaccinations ==
    \/ Start
    \/ Stop
    \/ DataUpdateTick
    \/ UpdateCovidDataWrite
    \/ UpdateCovidDataSource
    \/ UpdateHospitalCapacity
    \/ UpdateVaccinationData
    \/ AdvanceDay
    \/ PostVaccinations

SpecVaccinations == InitVaccinations /\ [][NextVaccinations]_vars

\* the data refresh over a table of hospitals, and the hospital routes
InitHospitals ==
    /\ InitService
    /\ ~vaccinations.tracked
    /\ hospitals \in HospitalTables
    /\ maData = <<>>
    /\ maOut = NotComputed
    /\ gwOutcome = Resolved(<<>>)
    /\ gwCall = NoCall
    /\ calcIn = NoInput
    /\ calcOut = NotComputed

NextHospitals ==
    \/ Start
    \/ DataUpdateTick
    \/ UpdateCovidDataWrite
    \/ UpdateCovidDataSource
    \/ UpdateHospitalCapacity
    \/ UpdateHospitalRow
    \/ UpdateVaccinationData
    \/ GetHospital
    \/ PutHospitalCapacity

SpecHospitals == InitHospitals /\ [][NextHospitals]_vars

\* the daily statistics job over tables that POST /cases filled for two
\* regions on two days: yesterday 10 and 100 cases, today 15 and 130
InitRegionalStats ==
    /\ isRunning = FALSE
    /\ jobs = {}
    /\ cronTasks = [n \in JobNames |-> 0]
    /\ tick = [n \in JobNames |-> Idle]
    /\ today = 1
    /\ data_sources = [n \in SourceNames |->
                          [error_count |-> 0, last_error |-> NullText, last_updated |-> 0]]
    /\ vaccinations = [tracked |-> FALSE, rows |-> EmptyBag]
    /\ hospitals = <<>>
    /\ maData = <<>>
    /\ maOut = NotComputed
    /\ gwOutcome = Resolved(<<>>)
    /\ gwCall = NoCall
    /\ calcIn = NoInput
    /\ calcOut = NotComputed
    /\ \E S \in SUBSET {Row(0, 1, 10, 0, 9, 1, 0, 0, 0), Row(1, 1, 15, 0, 12, 1, 0, 2, 0),
                         Row(0, 2, 100, 0, 90, 4, 0, 6, 0), Row(1, 2, 130, 0, 110, 5, 0, 15, 0)} :
           covid_cases = SetToBag(S)

NextRegionalStats ==
    \/ Start
    \/ Stop
    \/ DailyStatsTick
    \/ CalculateDailyStatisticsYesterday
    \/ CalculateDailyStatisticsWrite
    \/ UpdateTrends

SpecRegionalStats == InitRegionalStats /\ [][NextRegionalStats]_vars

\* the scheduler, the data refresh and callers of getStatus
NextStatus ==
    \/ Start
    \/ Stop
    \/ GetStatus
    \/ DataUpdateTick
    \/ UpdateCovidDataWrite
    \/ UpdateCovidDataSource
    \/ UpdateHospitalCapacity
    \/ UpdateVaccinationData
    \/ AdvanceDay

SpecStatus == Init /\ [][NextStatus]_vars

\* the moving-average computations on their own, over drawn input sequences
InitMA ==
    /\ InitService
    /\ ~vaccinations.tracked
    /\ hospitals = <<>>
    /\ maData \in MAInputs
    /\ maOut = NotComputed
    /\ gwOutcome = Resolved(<<>>)
    /\ gwCall = NoCall
    /\ calcIn = NoInput
    /\ calcOut = NotComputed

NextMA ==
    \/ CalculateMovingAverages
    \/ CasesTrends
    \/ StatisticsTrends

SpecMA == InitMA /\ [][NextMA]_vars

\* executeQuery on its own, over drawn outcomes of pool.execute
InitGateway ==
    /\ InitService
    /\ ~vaccinations.tracked
    /\ hospitals = <<>>
    /\ maData = <<>>
    /\ maOut = NotComputed
    /\ IsGatewayOutcome(gwOutcome)
    /\ gwCall = NoCall
    /\ calcIn = NoInput
    /\ calcOut = NotComputed

NextGateway == ExecuteQuery

SpecGateway == InitGateway /\ [][NextGateway]_vars

\* the calculators and validators on their own, over drawn inputs
InitCalc ==
    /\ InitService
    /\ ~vaccinations.tracked
    /\ hospitals = <<>>
    /\ gwOutcome = Resolved(<<>>)
    /\ gwCall = NoCall
    /\ maOut = NotComputed
    /\ calcOut = NotComputed
    /\ \/ maData \in ShortTrends /\ calcIn = NoInput
       \/ maData = <<>> /\ calcIn \in ComparisonInputs
       \/ maData = <<>> /\ calcIn \in CaseInputs
       \/ maData = <<>> /\ calcIn \in OverviewInputs
       \/ maData = <<>> /\ calcIn \in RegionInputs
       \/ maData = <<>> /\ calcIn \in RequestInputs
       \/ /\ maData = <<>>
          /\ \E c \in [1..4 -> {Rejected("ECONNREFUSED"), Resolved(<<[last_updated |-> Null]>>)}
                                 \cup {Resolved(<<[last_updated |-> Num(6000 - age)]>>) :
                                           age \in {0, 1439, 1440, 4319, 4320}}] :
                 calcIn = [kind |-> "freshness", now |-> 6000, checks |-> c]
       \/ /\ maData = <<>>
          /\ \E D \in SUBSET (0..(MaxLen + 1)) :
                 calcIn = [kind |-> "week", today |-> MaxLen + 1,
                           table |-> SetToBag({Row(d, NoRegion, 0, 10 + d, 0, 0, 0, 0, 0) :
                                                  d \in D})]

NextCalc ==
    \/ StatisticsTrends
    \/ StatisticsComparison
    \/ ToJSON
    \/ Validate
    \/ Save
    \/ StatisticsOverview
    \/ StatisticsRegional
    \/ RegionsWithStats
    \/ GetVaccinations
    \/ GetCases
    \/ GlobalErrorHandler
    \/ GetRegion
    \/ GenerateWeeklyReport
    \/ GetDataFreshness
    \/ LogTrends

SpecCalc == InitCalc /\ [][NextCalc]_vars

----------------------------------------------------------------------------
(* Properties of the scheduler *)

\* C1: start() on a running service changes neither the flag nor the
\* registry: whenever the service is running, exactly the three jobs are
\* registered and each has exactly one started cron task, and every step that
\* begins and ends in a running service leaves flag, registry and tasks alone.
C1_StartWhileRunningIsNoOp ==
    /\ [](isRunning => /\ jobs = JobNames
                       /\ \A n \in JobNames : cronTasks[n] = 1)
    /\ [][(isRunning /\ isRunning') => UNCHANGED <<isRunning, jobs, cronTasks>>]_vars

\* a running service on which start() is a no-op
C1_RunningWithOneSet ==
    /\ isRunning
    /\ jobs = JobNames
    /\ \A n \in JobNames : cronTasks[n] = 1

\* C2: every step that ends in a stopped service (stop() in any state) ends
\* with an empty registry and no cron task left started, and every step from
\* stopped to running (start() after stop()) registers the three jobs, one
\* started task each.
C2_StopClearsAndRestartRegisters ==
    [][/\ ~isRunning' => /\ jobs' = {}
                         /\ \A n \in JobNames : cronTasks'[n] = 0
       /\ (~isRunning /\ isRunning') => /\ jobs' = JobNames
                                        /\ \A n \in JobNames : cronTasks'[n] = 1]_vars

\* a service stopped after it ran: a tick it started is still in flight
C2_StoppedAfterRunning ==
    /\ ~isRunning
    /\ jobs = {}
    /\ \A n \in JobNames : cronTasks[n] = 0
    /\ \E n \in JobNames : tick[n].pc # "idle"

\* C3: the service is either stopped with an empty registry or running with
\* exactly the three jobs, and getStatus() reports the flag set only with
\* jobCount 3 and the flag cleared only with jobCount 0.
C3_NoPartialRunningState ==
    /\ isRunning <=> jobs = JobNames
    /\ ~isRunning <=> jobs = {}
    /\ getStatus.isRunning => getStatus.jobCount = 3
    /\ ~getStatus.isRunning => getStatus.jobCount = 0
    /\ getStatus.activeJobs \in {{}, JobNames}

\* getStatus() of a running service
C3_StatusRunning ==
    /\ getStatus.isRunning
    /\ getStatus.jobCount = 3
    /\ getStatus.activeJobs = JobNames

----------------------------------------------------------------------------
(* Properties of the query gateway *)

\* C4: executeQuery never throws: it returns {success: true, data} with the
\* results when the statement resolves and {success: false, error} with the
\* message of the Error when it rejects, and nothing else.
C4_ExecuteQueryNeverThrows ==
    gwCall.completion # "none" =>
        /\ gwCall.completion = "return"
        /\ IF gwOutcome.ok
           THEN gwCall.value = [success |-> TRUE, data |-> gwOutcome.results]
           ELSE /\ DOMAIN gwCall.value = {"success", "error"}
                /\ gwCall.value.success = FALSE
                /\ gwCall.value.error = gwOutcome.error.message
                /\ gwCall.value.error \in ErrorMessages

\* executeQuery has returned on a statement that was rejected
C4_FailureReturned ==
    /\ gwCall.completion = "return"
    /\ ~gwOutcome.ok
    /\ ~gwCall.value.success

----------------------------------------------------------------------------
(* Properties of the data refresh *)

\* rows of date d without a region: the rows updateCovidData writes
NationalRowsOn(table, d) == {r \in RowsOn(table, d) : r.region_id = NoRegion}

\* a counter of day d as stored for (d, no region)
StoredCounter(table, col, d) == SumOver(table, col, NationalRowsOn(table, d))

\* the step in which a run of updateCovidData has its upsert executed
RefreshWrote ==
    /\ tick["dataUpdate"].pc = "covid_read"
    /\ tick'["dataUpdate"].pc = "covid_write"
    /\ tick'["dataUpdate"].r2.completion = "return"
    /\ tick'["dataUpdate"].r2.value.success

C7_ActiveCasesFlooredAtZero ==
    \A r \in BagToSet(covid_cases) :
        r.region_id = NoRegion =>
            /\ r.active_cases = Max(0, r.total_cases - r.deaths - r.recovered)
            /\ r.active_cases >= 0

\* a statement of a tick was rejected, or (had the gateway thrown) threw
Failed(call) ==
    \/ call.completion = "throw"
    \/ call.completion = "return" /\ ~call.value.success

\* the step in which a run of updateCovidData whose upsert failed has its
\* status update executed
FailedRunRecorded ==
    /\ tick["dataUpdate"].pc = "covid_write"
    /\ Failed(tick["dataUpdate"].r2)
    /\ tick'["dataUpdate"].pc = "covid_source"
    /\ tick'["dataUpdate"].r1.completion = "return"
    /\ tick'["dataUpdate"].r1.value.success

\* C9 as stated: when the case upsert of a run fails, a row of data_sources
\* gets its error_count raised by one, the message in last_error and
\* last_updated refreshed.
C9_FailureRecordedOnDataSource ==
    [][FailedRunRecorded =>
          \E n \in DOMAIN data_sources :
              /\ data_sources'[n].error_count = data_sources[n].error_count + 1
              /\ data_sources'[n].last_error # NullText
              /\ data_sources'[n].last_updated = today]_vars

----------------------------------------------------------------------------
(* Properties of the daily statistics *)

\* the step in which calculateDailyStatistics has its UPDATE executed
StatsWrote ==
    /\ tick["dailyStats"].pc = "stats_yesterday"
    /\ tick'["dailyStats"].pc = "stats_write"
    /\ tick'["dailyStats"].r1.completion = "return"
    /\ tick'["dailyStats"].r1.value.success

\* C6: the UPDATE of the daily statistics job leaves every row of its day with
\* new_cases, new_deaths, new_recovered equal to max(0, today's total -
\* yesterday's total) of the sums the job read (an absent day counting as 0),
\* so none of them negative.
C6_DailyDeltaFlooredAtZero ==
    [][StatsWrote =>
          LET t == tick["dailyStats"]
              todayStats == t.r1.value.data[1]
              yesterdayStats == t.r2.value.data[1]
          IN  \A r \in RowsOn(covid_cases', t.day) :
                  /\ r.new_cases = Max(0, ToNumber(todayStats.total_cases)
                                          - ToNumber(yesterdayStats.total_cases))
                  /\ r.new_deaths = Max(0, ToNumber(todayStats.total_deaths)
                                           - ToNumber(yesterdayStats.total_deaths))
                  /\ r.new_recovered = Max(0, ToNumber(todayStats.total_recovered)
                                              - ToNumber(yesterdayStats.total_recovered))
                  /\ r.new_cases >= 0 /\ r.new_deaths >= 0 /\ r.new_recovered >= 0]_vars

\* the job has written a day whose total lies below yesterday's: the floor
\* decided new_cases
C6_FloorApplied ==
    LET t == tick["dailyStats"]
    IN  /\ t.pc = "stats_write"
        /\ t.r1.completion = "return"
        /\ t.r1.value.success
        /\ RowsOn(covid_cases, t.day) # {}
        /\ RowsOn(covid_cases, t.day - 1) # {}
        /\ SumOver(covid_cases, "total_cases", RowsOn(covid_cases, t.day))
              < SumOver(covid_cases, "total_cases", RowsOn(covid_cases, t.day - 1))
        /\ \A r \in RowsOn(covid_cases, t.day) : r.new_cases = 0

----------------------------------------------------------------------------
(* Properties of the ticks *)

\* C8: a step of a tick leaves the running flag, the registry and the cron
\* tasks alone and touches no other job's tick, and no statement of a tick
\* completes by throwing: a failure reaches the tick as a returned
\* {success: false}, so nothing is left to escape the callback.
C8_FailureStaysInsideTick ==
    [][tick' # tick =>
          /\ UNCHANGED <<isRunning, jobs, cronTasks>>
          /\ \A n, m \in JobNames : (tick'[n] # tick[n] /\ tick'[m] # tick[m]) => n = m
          /\ \A n \in JobNames : /\ tick'[n].r1.completion # "throw"
                                 /\ tick'[n].r2.completion # "throw"]_vars

\* a registered job of a running service whose tick holds a failed statement
C8_FailedTickStillRegistered ==
    /\ isRunning
    /\ \E n \in jobs : /\ cronTasks[n] = 1
                       /\ \/ Failed(tick[n].r1)
                          \/ Failed(tick[n].r2)

----------------------------------------------------------------------------
(* Properties of the moving averages *)

RECURSIVE WindowTotal(_, _, _, _)
\* the sum of the counts of data[from..to]
WindowTotal(data, field, from, to) ==
    IF to < from THEN 0
    ELSE WindowTotal(data, field, from, to - 1) + ToNumber(data[to][field])

\* avg is the mean of seven counts that add up to total, to the rounding the
\* computations apply (at most half a unit)
IsMeanOf(avg, total) ==
    /\ avg.whole >= 0
    /\ avg.whole <= total
    /\ 700 * avg.whole + 7 * avg.cents - 100 * total <= 350
    /\ 100 * total - 700 * avg.whole - 7 * avg.cents <= 350

\* C10 as stated: each of the three computations yields, for every index
\* i >= 6, the mean of elements i-6..i of each counter and nothing for i < 6;
\* for daily_cases 5..14 that is 8.0 at index 6 and 11.0 at index 9.
C10_MovingAverageIsWindowMean ==
    LET n == Len(maData)
        out == maOut.out
        isExample == n = 10 /\ \A k \in 1..n : ToNumber(maData[k].daily_cases) = k + 4
    IN  /\ maOut.by = "calculateMovingAverages" =>
              /\ Len(out) = n - 6
              /\ \A k \in 1..(n - 6) :
                     /\ out[k].date = maData[k + 6].date
                     /\ IsMeanOf(out[k].avg_cases,
                                 WindowTotal(maData, "daily_cases", k, k + 6))
                     /\ IsMeanOf(out[k].avg_deaths,
                                 WindowTotal(maData, "daily_deaths", k, k + 6))
                     /\ IsMeanOf(out[k].avg_recovered,
                                 WindowTotal(maData, "daily_recovered", k, k + 6))
              /\ isExample => /\ out[1].avg_cases = Fixed2(8, 0)
                              /\ out[4].avg_cases = Fixed2(11, 0)
        /\ maOut.by \in {"trendsWithMA", "trendsData"} =>
              /\ Len(out) = n
              /\ \A k \in 1..n :
                     IF k - 1 < 6
                     THEN DOMAIN out[k] \cap {"ma_7_cases", "ma_7_deaths", "ma_7_recovered"}
                              = {}
                     ELSE /\ IsMeanOf(out[k].ma_7_cases,
                                      WindowTotal(maData, "daily_cases", k - 6, k))
                          /\ IsMeanOf(out[k].ma_7_deaths,
                                      WindowTotal(maData, "daily_deaths", k - 6, k))
                          /\ IsMeanOf(out[k].ma_7_recovered,
                                      WindowTotal(maData, "daily_recovered", k - 6, k))
              /\ isExample => /\ out[7].ma_7_cases = Fixed2(8, 0)
                              /\ out[10].ma_7_cases = Fixed2(11, 0)

----------------------------------------------------------------------------
(* Properties of the percentage change *)

\* change is the string with two decimals nearest to (curr - prev) / prev * 100,
\* and 0.00 when prev is 0 (or NULL)
IsChangeOf(change, curr, prev) ==
    /\ change.t = "fixed2"
    /\ IF prev = 0 THEN change.hundredths = 0
       ELSE LET e == change.hundredths * prev - 10000 * (curr - prev)
            IN  2 * e <= prev /\ 2 * (0 - e) <= prev

\* C11: every change value of GET /statistics/trends (index i > 0) and of
\* GET /statistics/comparison is (curr - prev) / prev * 100 to two decimals,
\* 0.00 when prev is 0 and never NaN or infinite; index 0 carries no change
\* value; prev = 0, curr = 50 gives 0.00.
C11_PercentageChangeGuarded ==
    /\ maOut.by = "trendsData" =>
          \A k \in DOMAIN maData :
              IF k = 1
              THEN DOMAIN maOut.out[k] \cap {"cases_change_pct", "deaths_change_pct"} = {}
              ELSE /\ IsChangeOf(maOut.out[k].cases_change_pct,
                                 ToNumber(maData[k].daily_cases),
                                 ToNumber(maData[k - 1].daily_cases))
                   /\ IsChangeOf(maOut.out[k].deaths_change_pct,
                                 ToNumber(maData[k].daily_deaths),
                                 ToNumber(maData[k - 1].daily_deaths))
    /\ calcOut.by = "comparison" =>
          LET c == calcIn.current
              p == calcIn.previous
              out == calcOut.out
          IN  /\ IsChangeOf(out.cases.change, ToNumber(c.total_cases),
                            ToNumber(p.total_cases))
              /\ IsChangeOf(out.deaths.change, ToNumber(c.total_deaths),
                            ToNumber(p.total_deaths))
              /\ IsChangeOf(out.recovered.change, ToNumber(c.total_recovered),
                            ToNumber(p.total_recovered))
              /\ IsChangeOf(out.hospitalized.change, Scaled(c.avg_hospitalized).v,
                            Scaled(p.avg_hospitalized).v)
    /\ pctChange(Decimal(50), Decimal(0)) = FixedString(0)
    /\ pctChange(Num(50), Num(0)) = FixedString(0)

\* a comparison whose previous period sums to 0 and whose current to 50
C11_ChangeFromZero ==
    /\ calcOut.by = "comparison"
    /\ calcIn.previous.total_cases = Decimal(0)
    /\ calcIn.current.total_cases = Decimal(50)
    /\ calcOut.out.cases.change = FixedString(0)

----------------------------------------------------------------------------
(* Properties of the rate calculators *)

\* rate spells numerator / denominator * 100 to two decimals, 0.00 when there
\* is no positive denominator
IsRateOf(rate, numerator, denominator) ==
    /\ rate.t = "fixed2"
    /\ IF ToNumber(denominator) > 0
       THEN LET diff == rate.hundredths * ToNumber(denominator)
                            - 10000 * ToNumber(numerator)
            IN  2 * diff <= ToNumber(denominator) /\ 0 - 2 * diff <= ToNumber(denominator)
       ELSE rate.hundredths = 0

----------------------------------------------------------------------------
(* Properties of CovidCase validation and of the write path *)

Contains(errors, message) == \E k \in DOMAIN errors : errors[k] = message

\* C13: validate() returns isValid false together with the matching message
\* whenever deaths or recovered exceed total_cases, the date is missing or a
\* counter is negative, and isValid is true exactly when the error list is
\* empty.
C13_ValidateRejectsInconsistentCounters ==
    calcOut.by = "validate" =>
        LET this == CovidCase(calcIn.data)
            v == calcOut.out
        IN  /\ v.isValid <=> v.errors = <<>>
            /\ this.deaths.v > this.total_cases.v
                   => ~v.isValid /\ Contains(v.errors, "Deaths cannot exceed total cases")
            /\ this.recovered.v > this.total_cases.v
                   => /\ ~v.isValid
                      /\ Contains(v.errors, "Recovered cases cannot exceed total cases")
            /\ calcIn.data.date = Undefined
                   => ~v.isValid /\ Contains(v.errors, "Date is required")
            /\ this.total_cases.v < 0
                   => ~v.isValid /\ Contains(v.errors, "Total cases cannot be negative")
            /\ this.deaths.v < 0
                   => ~v.isValid /\ Contains(v.errors, "Deaths cannot be negative")
            /\ this.recovered.v < 0
                   => ~v.isValid /\ Contains(v.errors, "Recovered cases cannot be negative")
            /\ (/\ calcIn.data.date # Undefined
                /\ this.total_cases.v >= 0 /\ this.deaths.v >= 0 /\ this.recovered.v >= 0
                /\ this.deaths.v <= this.total_cases.v
                /\ this.recovered.v <= this.total_cases.v)
                   => v.isValid

\* validate() has judged a dated case with more deaths than cases and nothing
\* else wrong
C13_DeathsAboveTotalJudged ==
    /\ calcOut.by = "validate"
    /\ calcIn.data.date # Undefined
    /\ calcIn.data.total_cases = Num(10)
    /\ calcIn.data.deaths = Num(20)
    /\ calcIn.data.recovered = Num(0)
    /\ calcOut.out = [isValid |-> FALSE, errors |-> <<"Deaths cannot exceed total cases">>]

----------------------------------------------------------------------------
(* Properties of the regional rates *)

\* C15: for a region with a positive population and a single vaccinations
\* row, every endpoint that returns vaccination_rate reports people_vaccinated
\* of that row / population * 100 to two decimals: 25000 of 100000 is 25.00.
C15_VaccinationRateOfSingleRow ==
    (/\ calcIn.kind = "region"
     /\ calcIn.region.population = Num(100000)
     /\ calcIn.vaccinated = <<25000>>) =>
        /\ calcOut.by \in {"regional", "regions"}
               => calcOut.out.vaccination_rate = FixedString(2500)
        /\ calcOut.by = "vaccinations"
               => calcOut.out[1].vaccination_rate = FixedString(2500)

----------------------------------------------------------------------------
(* Properties of the stored rows *)

\* C16: in every reachable state there is at most one covid_cases row per
\* (date, region_id), the national rows without region included.
C16_OneRowPerDateAndRegion ==
    \A d \in Dates, rg \in {NoRegion} \cup RegionIds :
        CopiesOf(covid_cases,
                 {r \in BagToSet(covid_cases) : r.date = d /\ r.region_id = rg}) <= 1

\* C17: after any number of data-refresh runs and POST /vaccinations requests
\* there is exactly one vaccinations row per (date, region_id, vaccine_type)
\* written to, holding the sums of the submitted doses: no two rows share
\* date, region_id and vaccine_type.
C17_OneVaccinationRowPerKey ==
    \A r \in BagToSet(vaccinations.rows) :
        CopiesOf(vaccinations.rows,
                 {x \in BagToSet(vaccinations.rows) :
                      /\ x.date = r.date
                      /\ x.region_id = r.region_id
                      /\ x.vaccine_type = r.vaccine_type}) = 1

----------------------------------------------------------------------------
(* Properties of the status report *)

\* C18: getStatus() is purely descriptive: every call returns the isRunning
\* flag, the registered job names as activeJobs, their number as jobCount and
\* the same three schedule strings whether the service runs or not, and it
\* changes no state of the service or the database.
C18_GetStatusDescribesRegistry ==
    [][calcOut' # calcOut =>
          /\ calcOut'.by = "getStatus"
          /\ calcOut'.out.isRunning = isRunning
          /\ calcOut'.out.activeJobs = jobs
          /\ calcOut'.out.jobCount = Cardinality(jobs)
          /\ calcOut'.out.schedules = [dataUpdate |-> "*/30 * * * *",
                                       dailyStats |-> "0 0 * * *",
                                       weeklyReport |-> "0 23 * * 0"]
          /\ UNCHANGED <<isRunning, jobs, cronTasks, tick, today, covid_cases,
                         data_sources, vaccinations>>]_vars

\* the status has been taken from a stopped service
C18_StatusOfStoppedService ==
    /\ ~isRunning
    /\ calcOut.by = "getStatus"
    /\ calcOut.out.isRunning = FALSE
    /\ calcOut.out.jobCount = 0
    /\ DOMAIN calcOut.out.schedules = JobNames

----------------------------------------------------------------------------
(* Properties of rates over a population of zero *)

\* a rate rendered as 0: the number 0 or a string spelling it
IsZeroRate(x) ==
    \/ x.t = "fixed2" /\ x.hundredths = 0
    \/ x.t \in {"number", "string"} /\ x.v = 0

\* C19: with a population of 0 as denominator no rate computation fails and
\* every rate is rendered as 0, not as NULL or NaN: cases_per_100k,
\* deaths_per_100k and vaccination_rate of a region with population 0, and
\* the rates of the national overview when the populations sum to 0.
C19_ZeroPopulationRendersZero ==
    /\ (calcOut.by = "regional" /\ calcIn.region.population = Num(0)) =>
           /\ IsZeroRate(calcOut.out.cases_per_100k)
           /\ IsZeroRate(calcOut.out.deaths_per_100k)
           /\ IsZeroRate(calcOut.out.vaccination_rate)
    /\ (calcOut.by = "regions" /\ calcIn.region.population = Num(0)) =>
           /\ IsZeroRate(calcOut.out.cases_per_100k)
           /\ IsZeroRate(calcOut.out.vaccination_rate)
    /\ (calcOut.by = "overview" /\ calcIn.population.total_population = Decimal(0)) =>
           /\ IsZeroRate(calcOut.out.cases.incidence_rate)
           /\ IsZeroRate(calcOut.out.vaccination.vaccination_rate)

----------------------------------------------------------------------------
(* Properties of error responses *)

\* C20: when a database query fails while a request is served outside
\* development, the 500 response carries a generic message and never the
\* text of the database error.
C20_ProductionHidesDatabaseError ==
    (/\ calcOut.by \in {"getCases", "globalErrorHandler"}
     /\ calcIn.NODE_ENV # "development"
     /\ calcOut.out.status = 500)
        => calcOut.out.message \notin ErrorMessages

----------------------------------------------------------------------------
(* Properties of the hospital routes and of the hospital step *)

\* C21: a request whose parameters the route's declared validators find
\* malformed or out of range is answered with HTTP 400 and the field-level
\* issues, and no database query is executed for it.
C21_MalformedRequestAnswered400 ==
    (calcOut.by \in {"getHospital", "putCapacity"} /\ calcOut.issues # <<>>) =>
        /\ calcOut.out.status = 400
        /\ calcOut.out.queries = 0
        /\ calcOut.out.details = calcOut.issues

WithinCapacity(h) ==
    /\ 0 <= h.occupied_beds /\ h.occupied_beds <= h.total_beds
    /\ 0 <= h.occupied_covid_beds /\ h.occupied_covid_beds <= h.covid_beds
    /\ 0 <= h.occupied_icu_beds /\ h.occupied_icu_beds <= h.icu_beds

C24_OccupancyNeverExceedsCapacity ==
    \A h \in DOMAIN hospitals :
        /\ hospitals[h].occupied_beds <= hospitals[h].total_beds
        /\ hospitals[h].occupied_covid_beds <= hospitals[h].covid_beds
        /\ hospitals[h].occupied_icu_beds <= hospitals[h].icu_beds
        /\ hospitals[h].occupied_ventilators <= hospitals[h].ventilators

----------------------------------------------------------------------------
(* Properties of the weekly report and of the trend window *)

\* C23: the weekly report aggregates exactly the daily case rows of the last
\* 7 calendar days (count, sum, average, maximum and minimum of new_cases over
\* the 7 dates up to today), and the rows the daily job reads for the moving
\* averages lie in the same 7-day window.
C23_WeeklyWindowIsSevenDates ==
    /\ calcOut.by = "weeklyReport" =>
           calcOut.out = WeeklyData(calcIn.table, calcIn.today - 6, calcIn.today)[1]
    /\ calcOut.by = "updateTrends" =>
           \A k \in DOMAIN calcOut.read :
               calcOut.read[k].date \in (calcIn.today - 6)..calcIn.today

----------------------------------------------------------------------------
(* Properties of the data refresh and the daily statistics together *)

\* C25: when a data-refresh run and a daily-statistics run of the same day
\* overlap, the rows of today carry, once the statistics job has written,
\* new_cases = max(0, today's total_cases - yesterday's total_cases) of the
\* totals stored then: the delta is never one computed from totals that the
\* refresh replaced between the statistics job's read and its write. (The
\* refresh run has executed its upsert and writes covid_cases no more, so the
\* rows are those both runs leave behind.)
C25_DeltaMatchesStoredTotals ==
    [][(/\ StatsWrote
        /\ tick["dataUpdate"].pc \in {"covid_write", "covid_source", "hospital"}
        /\ tick["dataUpdate"].day = tick["dailyStats"].day
        /\ \A r \in BagToSet(covid_cases) : r.region_id = NoRegion) =>
          LET d == tick["dailyStats"].day
          IN  \A r \in RowsOn(covid_cases', d) :
                  r.new_cases =
                      Max(0, SumOver(covid_cases', "total_cases", RowsOn(covid_cases', d))
                             - SumOver(covid_cases', "total_cases",
                                       RowsOn(covid_cases', d - 1)))]_vars

\* C28: a run of the data refresh that finds no case row dated before today
\* starts from the baseline 230000 cases, 2800 deaths, 220000 recovered: the
\* row it writes for today has total_cases = 230000 + new_cases, deaths =
\* 2800 + new_deaths, recovered = 220000 + new_recovered and active_cases =
\* total_cases - deaths - recovered.
C28_FirstRowBuiltOnBaseline ==
    [][(/\ RefreshWrote
        /\ \A x \in BagToSet(covid_cases) : x.date >= tick["dataUpdate"].day) =>
          \E r \in RowsOn(covid_cases', tick["dataUpdate"].day) :
              /\ covid_cases' = covid_cases (+) SetToBag({r})
              /\ r.total_cases = 230000 + r.new_cases
              /\ r.deaths = 2800 + r.new_deaths
              /\ r.recovered = 220000 + r.new_recovered
              /\ r.active_cases = r.total_cases - r.deaths - r.recovered]_vars

----------------------------------------------------------------------------
(* Properties of ticks around stop() *)

\* C26 as stated: ticks start only while the service is running, and
\* therefore a stopped service starts no automation write: no step of a tick
\* taken while the service is stopped begins a tick or changes covid_cases,
\* hospitals, vaccinations or data_sources.
C26_NoAutomationWriteWhileStopped ==
    [][(~isRunning /\ tick' # tick) =>
          /\ \A n \in JobNames : tick[n].pc = "idle" => tick'[n].pc = "idle"
          /\ UNCHANGED <<covid_cases, hospitals, vaccinations, data_sources>>]_vars

\* C26 amended: a stopped service has no started cron task and a tick begins
\* only in a running service whose task for that job is started; a tick that
\* began before stop() runs on, so its writes may still follow stop().
C26_TicksBeginOnlyWhileRunning ==
    /\ [](~isRunning => \A n \in JobNames : cronTasks[n] = 0)
    /\ [][\A n \in JobNames :
              (tick[n].pc = "idle" /\ tick'[n].pc # "idle") =>
                  (isRunning /\ cronTasks[n] > 0)]_vars

\* a stopped service whose refresh tick, begun before stop(), has executed
\* its upsert and is still to update data_sources
C26_StoppedWithRefreshInFlight ==
    /\ ~isRunning
    /\ \A n \in JobNames : cronTasks[n] = 0
    /\ tick["dataUpdate"].pc = "covid_write"
    /\ covid_cases # <<>>

----------------------------------------------------------------------------
(* Properties of the daily statistics per region *)

\* C30: the daily statistics job gives each region its own delta: after its
\* UPDATE, the row for today of every region that also has a row for
\* yesterday carries new_cases, new_deaths, new_recovered = max(0, the
\* region's total today - the region's total yesterday), whatever rows other
\* regions have for that date.
C30_RegionGetsOwnDelta ==
    [][StatsWrote =>
          LET d == tick["dailyStats"].day
          IN  \A r \in RowsOn(covid_cases', d), y \in RowsOn(covid_cases', d - 1) :
                  (r.region_id # NoRegion /\ y.region_id = r.region_id) =>
                      /\ r.new_cases = Max(0, r.total_cases - y.total_cases)
                      /\ r.new_deaths = Max(0, r.deaths - y.deaths)
                      /\ r.new_recovered = Max(0, r.recovered - y.recovered)]_vars

----------------------------------------------------------------------------
(* Properties of the data-freshness report *)

\* C27: a table is classified by the whole hours since its last update:
\* fresh below 24 hours, stale from 24 to below 72, very_stale from 72 on and
\* no_data without a timestamp; the overall status is fresh only if every
\* result is fresh, very_stale if any result is very_stale and not all are
\* fresh, and stale otherwise.
C27_FreshnessByWholeHours ==
    calcOut.by = "dataFreshness" =>
        LET results == calcOut.out.data
            overall == calcOut.out.overall_status
            Age(k) == calcIn.now - results[k].last_updated.v
        IN  /\ \A k \in DOMAIN results :
                   IF results[k].last_updated = Null
                   THEN results[k].status = "no_data"
                   ELSE /\ results[k].hours_since_update.v * 60 <= Age(k)
                        /\ Age(k) < (results[k].hours_since_update.v + 1) * 60
                        /\ Age(k) < 24 * 60 <=> results[k].status = "fresh"
                        /\ (24 * 60 <= Age(k) /\ Age(k) < 72 * 60)
                               <=> results[k].status = "stale"
                        /\ 72 * 60 <= Age(k) <=> results[k].status = "very_stale"
            /\ overall = "fresh" <=> \A k \in DOMAIN results : results[k].status = "fresh"
            /\ overall = "very_stale" <=>
                   /\ \E k \in DOMAIN results : results[k].status = "very_stale"
                   /\ \E k \in DOMAIN results : results[k].status # "fresh"
            /\ overall \in {"fresh", "stale", "very_stale"}

\* a report with a table updated exactly 24 hours ago (stale), one updated
\* 71 hours 59 minutes ago (stale), one without timestamp and one fresh
C27_BoundaryAges ==
    /\ calcOut.by = "dataFreshness"
    /\ calcOut.out.overall_status = "stale"
    /\ Len(calcOut.out.data) = 4
    /\ calcOut.out.data[1].hours_since_update = Num(24)
    /\ calcOut.out.data[1].status = "stale"
    /\ calcOut.out.data[2].hours_since_update = Num(71)
    /\ calcOut.out.data[2].status = "stale"
    /\ calcOut.out.data[3].status = "no_data"
    /\ calcOut.out.data[4].status = "fresh"

----------------------------------------------------------------------------
(* Properties of the per-region aggregates *)

\* C29: the total_cases, people_vaccinated and vaccination_rate that GET
\* /statistics/regional, GET /regions?include_stats=true and GET /regions/:id
\* report for a region are those they would report if the region had one
\* hospital more, or one municipality more.
C29_AggregatesIgnoreHospitalCount ==
    LET in == calcIn
        SameAggregates(a, b) ==
            /\ a.total_cases = b.total_cases
            /\ a.people_vaccinated = b.people_vaccinated
            /\ a.vaccination_rate = b.vaccination_rate
    IN  /\ calcOut.by = "regional" =>
               SameAggregates(calcOut.out,
                              regionalRow(in.region, in.cases, in.vaccinated, in.hospitals + 1))
        /\ calcOut.by = "regions" =>
               /\ SameAggregates(calcOut.out,
                                 regionsRow(in.region, in.cases, in.vaccinated,
                                            in.hospitals + 1, in.municipalities))
               /\ SameAggregates(calcOut.out,
                                 regionsRow(in.region, in.cases, in.vaccinated,
                                            in.hospitals, in.municipalities + 1))
        /\ calcOut.by = "region" =>
               /\ SameAggregates(calcOut.out,
                                 regionById(in.region, in.cases, in.vaccinated,
                                            in.hospitals + 1, in.municipalities))
               /\ SameAggregates(calcOut.out,
                                 regionById(in.region, in.cases, in.vaccinated,
                                            in.hospitals, in.municipalities + 1))

====
